---- MODULE Spec2Model ----
(***************************************************************************)
(* Key-share lifecycle of the MXND backend: AuthService (OTP login and     *)
(* onboarding), KeyShareService (Shamir split / combine over GF(2^8) as    *)
(* done by secrets.js, AES share encryption) and WalletService (wallet     *)
(* creation, persistence and recovery).                                    *)
(*                                                                         *)
(* Strings are sequences of code points; byte strings are sequences of     *)
(* 0..255; hex strings are sequences of nibbles 0..15 until they are       *)
(* turned into characters.                                                 *)
(***************************************************************************)
EXTENDS Integers, Sequences, FiniteSets, TLC

\* ------------------------------------------------------------------------
\* Program constants
\* ------------------------------------------------------------------------
TOTAL_SHARES == 5
THRESHOLD == 3
\* secrets.js default field: GF(2^Bits), primitive polynomial x^8+x^4+x^3+x^2+1
Bits == 8
FieldSize == 256
MaxShares == 255
Primitive == 29
\* secrets.share pads the secret to a multiple of 128 bits by default
PadLength == 128
\* OTP lifetime in milliseconds (5 * 60 * 1000)
OtpTtl == 300000

\* ------------------------------------------------------------------------
\* Bounds of the model
\* ------------------------------------------------------------------------
\* length of a generated seed phrase (characters)
SeedLen == 1
\* number of distinct outcomes of the process random source per request
MaxRng == 2
\* number of clock advances
MaxTicks == 1

\* verifyOTP requests that are in flight together
MaxCalls == 2

\* usdt-incoming deliveries in one run
MaxDeliveries == 2

\* ------------------------------------------------------------------------
\* Generic helpers
\* ------------------------------------------------------------------------
RECURSIVE Xor(_, _)
Xor(a, b) ==
  IF a = 0 THEN b
  ELSE IF b = 0 THEN a
  ELSE (((a % 2) + (b % 2)) % 2) + 2 * Xor(a \div 2, b \div 2)

\* concatenation of a sequence of sequences
RECURSIVE Concat(_)
Concat(ss) ==
  IF Len(ss) = 0 THEN <<>>
  ELSE IF Len(ss) = 1 THEN ss[1]
  ELSE LET h == Len(ss) \div 2
       IN Concat(SubSeq(ss, 1, h)) \o Concat(SubSeq(ss, h + 1, Len(ss)))

\* a function over 1..n as a tuple
Tuple(f) == f \o <<>>

Reverse(s) == Tuple([i \in 1..Len(s) |-> s[Len(s) + 1 - i]])

\* n as w binary digits, most significant first
ToBits(n, w) == Tuple([i \in 1..w |-> ((n \div (2 ^ (w - i))) % 2)])

RECURSIVE FromBits(_)
FromBits(b) ==
  IF b = <<>> THEN 0 ELSE (2 * FromBits(SubSeq(b, 1, Len(b) - 1))) + b[Len(b)]

\* ------------------------------------------------------------------------
\* secrets.js: GF(2^8) tables (init), horner, lagrange
\* ------------------------------------------------------------------------
\* one step of the table construction in init: x = x << 1, reduced by the
\* primitive polynomial when it leaves the field
NextExp(x) ==
  IF 2 * x >= FieldSize THEN Xor(2 * x, Primitive) % FieldSize ELSE 2 * x

\* n successive table entries starting with x
RECURSIVE ExpsRun(_, _)
ExpsRun(x, n) == IF n = 0 THEN <<>> ELSE <<x>> \o ExpsRun(NextExp(x), n - 1)

\* the table in runs of 16 entries
RECURSIVE ExpsBlocks(_, _)
ExpsBlocks(x, n) ==
  IF n = 0 THEN <<>>
  ELSE LET run == ExpsRun(x, 16)
       IN run \o ExpsBlocks(NextExp(run[16]), n - 1)

\* ExpsSeq[i + 1] = exps[i]
ExpsSeq == ExpsBlocks(1, FieldSize \div 16)

Exps(i) == ExpsSeq[i + 1]

\* logs[x] = i is assigned for i = 0..FieldSize-1 in order, so the last
\* index wins (logs[1] = 255)
LogsTable ==
  [v \in 1..MaxShares |->
     CHOOSE i \in 0..(FieldSize - 1) :
       /\ ExpsSeq[i + 1] = v
       /\ \A k \in (i + 1)..(FieldSize - 1) : ExpsSeq[k + 1] # v]

Logs(v) == LogsTable[v]

\* horner(x, coeffs): evaluate the polynomial with coefficients coeffs
\* (constant term first) at x
RECURSIVE HornerFrom(_, _, _, _)
HornerFrom(x, coeffs, i, fx) ==
  IF i = 0 THEN fx
  ELSE HornerFrom(x, coeffs, i - 1,
         IF fx # 0
           THEN Xor(Exps((Logs(x) + Logs(fx)) % MaxShares), coeffs[i])
           ELSE coeffs[i])

Horner(x, coeffs) == HornerFrom(x, coeffs, Len(coeffs), 0)

\* product term of lagrange(0, x, y) for point i; -1 when some x[j] = 0
RECURSIVE LagrangeProduct(_, _, _, _)
LagrangeProduct(x, i, j, product) ==
  IF j > Len(x) THEN product
  ELSE IF i = j THEN LagrangeProduct(x, i, j + 1, product)
  ELSE IF x[j] = 0 THEN -1
  ELSE LagrangeProduct(x, i, j + 1,
         (product + Logs(x[j]) - Logs(Xor(x[i], x[j])) + MaxShares) % MaxShares)

RECURSIVE LagrangeSum(_, _, _)
LagrangeSum(x, y, i) ==
  IF i > Len(x) THEN 0
  ELSE LET rest == LagrangeSum(x, y, i + 1)
       IN IF y[i] = 0 THEN rest
          ELSE LET p == LagrangeProduct(x, i, 1, Logs(y[i]))
               IN IF p = -1 THEN rest ELSE Xor(rest, Exps(p))

\* lagrange(0, x, y)
Lagrange(x, y) == LagrangeSum(x, y, 1)

\* ------------------------------------------------------------------------
\* Character and byte codecs
\* ------------------------------------------------------------------------
\* lower-case hex digit of a nibble, as a character code
HexChar(n) == IF n < 10 THEN 48 + n ELSE 87 + n

\* value of a hex digit character, -1 when it is none
HexVal(c) ==
  IF c >= 48 /\ c <= 57 THEN c - 48
  ELSE IF c >= 97 /\ c <= 102 THEN c - 87
  ELSE IF c >= 65 /\ c <= 70 THEN c - 55
  ELSE -1

IsHexString(str) == \A i \in 1..Len(str) : HexVal(str[i]) >= 0

\* padLeft(str, multipleOfBits): zero-pad a binary string on the left
PadLeft(bits, multiple) ==
  LET missing == Len(bits) % multiple
  IN IF missing = 0 THEN bits
     ELSE [i \in 1..(multiple - missing) |-> 0] \o bits

\* hex2bin: each hex digit becomes 4 binary digits
Hex2Bin(nibbles) ==
  Tuple([i \in 1..(4 * Len(nibbles)) |->
           (nibbles[((i - 1) \div 4) + 1] \div (2 ^ (3 - ((i - 1) % 4)))) % 2])

\* bin2hex: left-pad to a multiple of 4, then one hex digit per 4 bits
Bin2Hex(bits) ==
  LET p == PadLeft(bits, 4)
  IN Tuple([i \in 1..(Len(p) \div 4) |-> FromBits(SubSeq(p, 4 * i - 3, 4 * i))])

\* splitNumStringToIntArray(str, padLength): groups of Bits binary digits
\* taken from the right end; element 1 is the lowest-order group
SplitNumStringToIntArray(bits, padLength) ==
  LET p == IF padLength > 0 THEN PadLeft(bits, padLength) ELSE bits
      n == IF Len(p) = 0 THEN 1 ELSE (Len(p) + Bits - 1) \div Bits
  IN Tuple([i \in 1..n |->
              LET hi == Len(p) - Bits * (i - 1)
                  lo == IF hi - Bits + 1 < 1 THEN 1 ELSE hi - Bits + 1
              IN FromBits(SubSeq(p, lo, hi))])

\* Buffer.from(str, 'utf8'): code points to bytes
Utf8EncodeChar(c) ==
  IF c < 128 THEN <<c>>
  ELSE IF c < 2048 THEN <<192 + (c \div 64), 128 + (c % 64)>>
  ELSE IF c >= 55296 /\ c <= 57343 THEN <<239, 191, 189>>
  ELSE IF c < 65536
    THEN <<224 + (c \div 4096), 128 + ((c \div 64) % 64), 128 + (c % 64)>>
  ELSE <<240 + (c \div 262144), 128 + ((c \div 4096) % 64),
         128 + ((c \div 64) % 64), 128 + (c % 64)>>

Utf8Encode(str) == Concat(Tuple([i \in 1..Len(str) |-> Utf8EncodeChar(str[i])]))

\* buf.toString('utf8'): bytes to code points; every maximal ill-formed
\* subsequence becomes U+FFFD
Utf8Need(b) ==
  IF b >= 194 /\ b <= 223 THEN 1
  ELSE IF b >= 224 /\ b <= 239 THEN 2
  ELSE IF b >= 240 /\ b <= 244 THEN 3
  ELSE 0

Utf8ContOk(lead, k, b) ==
  LET lo == IF k = 1 /\ lead = 224 THEN 160
            ELSE IF k = 1 /\ lead = 240 THEN 144 ELSE 128
      hi == IF k = 1 /\ lead = 237 THEN 159
            ELSE IF k = 1 /\ lead = 244 THEN 143 ELSE 191
  IN b >= lo /\ b <= hi

\* the number of well-formed continuation bytes that follow the byte at i
Utf8Good(bytes, i) ==
  Cardinality({k \in 1..Utf8Need(bytes[i]) :
     \A m \in 1..k :
       i + m <= Len(bytes) /\ Utf8ContOk(bytes[i], m, bytes[i + m])})

\* the byte at i continues the sequence begun by a lead byte before it
Utf8Consumed(bytes, i) ==
  \E j \in 1..(i - 1) : i - j <= 3 /\ i - j <= Utf8Good(bytes, j)

Utf8Decode(bytes) ==
  LET starts == SelectSeq([i \in 1..Len(bytes) |-> i],
                          LAMBDA i : ~Utf8Consumed(bytes, i))
      unit(i) ==
        LET b == bytes[i]
            need == Utf8Need(b)
        IN IF b < 128 THEN b
           ELSE IF need = 0 \/ Utf8Good(bytes, i) < need THEN 65533
           ELSE IF need = 1 THEN (b - 192) * 64 + (bytes[i + 1] - 128)
           ELSE IF need = 2
             THEN (b - 224) * 4096 + (bytes[i + 1] - 128) * 64 + (bytes[i + 2] - 128)
           ELSE (b - 240) * 262144 + (bytes[i + 1] - 128) * 4096
                + (bytes[i + 2] - 128) * 64 + (bytes[i + 3] - 128)
  IN Tuple([k \in 1..Len(starts) |-> unit(starts[k])])

\* buf.toString('hex'): two hex digits per byte
BytesToHex(bytes) ==
  Tuple([i \in 1..(2 * Len(bytes)) |->
           IF i % 2 = 1 THEN bytes[(i + 1) \div 2] \div 16 ELSE bytes[i \div 2] % 16])

\* Buffer.from(hex, 'hex'): one byte per digit pair, a trailing odd digit
\* is dropped
HexToBytes(nibbles) ==
  Tuple([i \in 1..(Len(nibbles) \div 2) |-> 16 * nibbles[2 * i - 1] + nibbles[2 * i]])

\* ------------------------------------------------------------------------
\* Random source.  One request reads the process random source at
\* successive positions; tape selects which outcome the source produces.
\* ------------------------------------------------------------------------
\* config.rng(Bits): a non-zero field element
Rng(tape, k) == ((tape * 7919 + k * 104729 + k * k * tape * 131) % MaxShares) + 1

\* ------------------------------------------------------------------------
\* secrets.js share / combine
\* ------------------------------------------------------------------------
Ok(v) == [ok |-> TRUE, val |-> v]
Err(e) == [ok |-> FALSE, err |-> e]

\* getShares for every group of the secret, and the public share strings:
\* the bits character, the share id in hex, the share data in hex
\* a polynomial whose coefficients do not come from the random source
CoeffsFixed(secret, i, threshold, tape, k0) ==
  <<secret[i]>> \o [c \in 1..(threshold - 1) |-> 1]

\* the polynomial of group i of the secret: the group and threshold - 1
\* random coefficients
Coeffs(secret, i, threshold, tape, k0) ==
  <<secret[i]>> \o
  [c \in 1..(threshold - 1) |-> Rng(tape, k0 + (i - 1) * (threshold - 1) + (c - 1))]

HexChars(h) == Tuple([i \in 1..Len(h) |-> HexChar(h[i])])

\* the public share string of share x: bits character, id, data
ShareString(x, secret, threshold, tape, k0) ==
  <<48 + Bits>> \o <<HexChar(x \div 16), HexChar(x % 16)>> \o
  HexChars(Bin2Hex(Concat(Tuple([j \in 1..Len(secret) |->
     ToBits(Horner(x, Coeffs(secret, Len(secret) + 1 - j, threshold, tape, k0)), Bits)]))))

\* the shares of a secret already split into groups
SharesOf(secret, numShares, threshold, tape, k0) ==
  [shares |-> Tuple([x \in 1..numShares |-> ShareString(x, secret, threshold, tape, k0)]),
   next |-> k0 + Len(secret) * (threshold - 1)]

SecretsShare(hexSecret, numShares, threshold, tape, k0) ==
  SharesOf(SplitNumStringToIntArray(<<1>> \o Hex2Bin(hexSecret), PadLength),
           numShares, threshold, tape, k0)

\* bits encoded by the first character of a share (base 36), 0 when the
\* character is not in [a-kA-K3-9]
ShareBits(c) ==
  IF c >= 51 /\ c <= 57 THEN c - 48
  ELSE IF c >= 97 /\ c <= 107 THEN c - 87
  ELSE IF c >= 65 /\ c <= 75 THEN c - 55
  ELSE 0

RECURSIVE HexLen(_)
HexLen(n) == IF n < 16 THEN 1 ELSE 1 + HexLen(n \div 16)

RECURSIVE HexNum(_)
HexNum(str) ==
  IF str = <<>> THEN 0
  ELSE 16 * HexNum(SubSeq(str, 1, Len(str) - 1)) + HexVal(str[Len(str)])

\* extractShareComponents
ExtractShareComponents(share) ==
  IF share = <<>> \/ ShareBits(share[1]) = 0 THEN Err("InvalidShare")
  ELSE
    LET bits == ShareBits(share[1])
        idLen == HexLen((2 ^ bits) - 1)
    IN IF Len(share) < 1 + idLen + 1 \/ ~IsHexString(Tail(share))
         THEN Err("InvalidShare")
       ELSE
         LET id == HexNum(SubSeq(share, 2, 1 + idLen))
             data == SubSeq(share, 2 + idLen, Len(share))
         IN IF id < 1 \/ id > (2 ^ bits) - 1 THEN Err("InvalidShare")
            ELSE Ok([bits |-> bits, id |-> id,
                     data |-> Tuple([i \in 1..Len(data) |-> HexVal(data[i])])])

\* the longest of the data arrays
MaxLen(d) ==
  IF Len(d) = 0 THEN 0
  ELSE CHOOSE m \in {Len(d[k]) : k \in 1..Len(d)} : \A k \in 1..Len(d) : Len(d[k]) <= m

\* group j of every share, 0 where a share is shorter
Column(d, j) == Tuple([k \in 1..Len(d) |-> IF j <= Len(d[k]) THEN d[k][j] ELSE 0])

\* the bits after the first 1 (the marker), as hex
StripMarker(result) ==
  LET ones == {i \in 1..Len(result) : result[i] = 1}
      marker == IF ones = {} THEN 0
                ELSE CHOOSE i \in ones : \A k \in ones : i <= k
  IN Ok(Bin2Hex(SubSeq(result, marker + 1, Len(result))))

\* interpolation at 0 of every group, highest group first
CombinePoints(x, d) ==
  StripMarker(Concat(Tuple([j \in 1..MaxLen(d) |->
    ToBits(Lagrange(x, Column(d, MaxLen(d) + 1 - j)), Bits)])))

\* positions of the shares whose id was not seen at an earlier position
FirstSeen(comps) ==
  SelectSeq(Tuple([i \in 1..Len(comps) |-> i]),
            LAMBDA i : \A j \in 1..(i - 1) : comps[j].val.id # comps[i].val.id)

CombineKept(comps, keep) ==
  CombinePoints(
    Tuple([k \in 1..Len(keep) |-> comps[keep[k]].val.id]),
    Tuple([k \in 1..Len(keep) |->
             SplitNumStringToIntArray(Hex2Bin(comps[keep[k]].val.data), 0)]))

CombineComponents(comps) ==
  LET bad == {i \in 1..Len(comps) :
                \/ ~comps[i].ok
                \/ (comps[1].ok /\ comps[i].val.bits # comps[1].val.bits)}
  IN IF bad # {}
       THEN LET i == CHOOSE b \in bad : \A c \in bad : b <= c
            IN IF comps[i].ok THEN Err("MismatchedShares") ELSE comps[i]
     ELSE CombineKept(comps, FirstSeen(comps))

\* combine(shares): shares whose id was already seen are skipped, the
\* groups are interpolated at 0 and the marker bit is stripped
SecretsCombine(shares) ==
  CombineComponents(Tuple([i \in 1..Len(shares) |-> ExtractShareComponents(shares[i])]))

\* ------------------------------------------------------------------------
\* KeyShareService
\* ------------------------------------------------------------------------
SplitSeedPhrase(seedPhrase, tape, k0) ==
  SecretsShare(BytesToHex(Utf8Encode(seedPhrase)), TOTAL_SHARES, THRESHOLD, tape, k0)

\* Buffer.from(hexSeed, 'hex').toString('utf8') of a combined secret
DecodeSeed(hexSeed) ==
  IF ~hexSeed.ok THEN hexSeed ELSE Ok(Utf8Decode(HexToBytes(hexSeed.val)))

\* reconstructSeedPhrase as it would be with the slice one share short
ReconstructFromTwoShares(shares) ==
  IF Len(shares) < THRESHOLD THEN Err("NeedAtLeastThresholdShares")
  ELSE DecodeSeed(SecretsCombine(SubSeq(shares, 1, THRESHOLD - 1)))

ReconstructSeedPhrase(shares) ==
  IF Len(shares) < THRESHOLD THEN Err("NeedAtLeastThresholdShares")
  ELSE DecodeSeed(SecretsCombine(SubSeq(shares, 1, THRESHOLD)))

\* Deno.env.get('ENCRYPTION_KEY') || 'default-secret-key-change-in-production'
EncryptionKey == "default-secret-key-change-in-production"

\* a key derivation whose salt leaves the share index out
ScryptSyncFixedSalt(secret, shareIndex) == [secret |-> secret, salt |-> <<"share", "salt">>]

\* scryptSync(secret, `share-${shareIndex}-salt`, 32): a key determined by
\* the secret and the salt, different inputs giving different keys
ScryptSync(secret, shareIndex) == [secret |-> secret, salt |-> <<"share", shareIndex, "salt">>]

\* encryptShare: `${iv}:${ciphertext}`; AES-256-CBC is an ideal cipher, its
\* ciphertext is the term (key, iv, plaintext bytes)
EncryptShare(share, shareIndex, iv) ==
  [iv |-> iv,
   encrypted |-> [key |-> ScryptSync(EncryptionKey, shareIndex), iv |-> iv,
                  bytes |-> Utf8Encode(share)]]

\* decryptShare: the outcomes createDecipheriv/final can have.  Under the
\* key and IV of the encryption the plaintext comes back; under any other
\* key or IV the padding check throws or some other text comes out.
Garbage == <<65533>>

\* AES block size in bytes
BlockSize == 16

\* decryptShare as it would be without `decrypted += decipher.final('utf8')`:
\* only the blocks decipher.update releases
DecryptShareWithoutFinal(encryptedShare, shareIndex) ==
  IF encryptedShare.encrypted.key = ScryptSync(EncryptionKey, shareIndex)
     /\ encryptedShare.encrypted.iv = encryptedShare.iv
    THEN {Ok(Utf8Decode(SubSeq(encryptedShare.encrypted.bytes, 1,
            BlockSize * (Len(encryptedShare.encrypted.bytes) \div BlockSize))))}
    ELSE {Err("DecryptionFailed"), Ok(Garbage)}

DecryptShare(encryptedShare, shareIndex) ==
  \* a null column: encryptedShare.split throws a TypeError
  IF "encrypted" \notin DOMAIN encryptedShare THEN {Err("TypeError")}
  ELSE LET key == ScryptSync(EncryptionKey, shareIndex)
           ct == encryptedShare.encrypted
       IN IF ct.key = key /\ ct.iv = encryptedShare.iv
            THEN {Ok(Utf8Decode(ct.bytes))}
            ELSE {Err("DecryptionFailed"), Ok(Garbage)}

\* KeyShareService.decryptShare as installed in the process: the method
\* above, or a replacement injected by a test that throws or returns
\* other text
DecryptImpls == {"real", "throws", "garbage"}

DecryptShareVia(impl, encryptedShare, shareIndex) ==
  IF impl = "real" THEN DecryptShare(encryptedShare, shareIndex)
  ELSE IF impl = "throws" THEN {Err("DecryptionFailed")}
  ELSE {Ok(Garbage)}

\* generateShareDistribution: one split, shares[2] and shares[3] encrypted
\* under their own index, each with a fresh IV
\* a distribution that encrypts both backend shares under the index of
\* the first
DistributeUnderOneIndex(split, tape) ==
  [merchantShare |-> split.shares[1],
   merchantBackupShare |-> split.shares[2],
   backendShare1 |-> EncryptShare(split.shares[3], 2, Rng(tape, split.next)),
   backendShare2 |-> EncryptShare(split.shares[4], 2, Rng(tape, split.next + 1)),
   optionalShare |-> split.shares[5],
   allShares |-> split.shares,
   next |-> split.next + 2]

Distribute(split, tape) ==
  [merchantShare |-> split.shares[1],
   merchantBackupShare |-> split.shares[2],
   backendShare1 |-> EncryptShare(split.shares[3], 2, Rng(tape, split.next)),
   backendShare2 |-> EncryptShare(split.shares[4], 3, Rng(tape, split.next + 1)),
   optionalShare |-> split.shares[5],
   allShares |-> split.shares,
   next |-> split.next + 2]

GenerateShareDistribution(seedPhrase, tape, k0) ==
  Distribute(SplitSeedPhrase(seedPhrase, tape, k0), tape)

\* validateShares: a reconstruction that throws counts as invalid
ValidateShares(shares, originalSeed) ==
  LET reconstructed == ReconstructSeedPhrase(shares)
  IN reconstructed.ok /\ reconstructed.val = originalSeed

\* a recovery package whose QR document carries the backup share
CreateRecoveryPackageBackupInQR(merchantShare, merchantBackupShare, timestamp) ==
  [qrData |-> [share |-> merchantBackupShare],
   emailData |-> [shares |-> <<merchantShare, merchantBackupShare>>,
                  timestamp |-> timestamp, version |-> "1.0"]]

\* createRecoveryPackage: the two JSON documents, by their fields
CreateRecoveryPackage(merchantShare, merchantBackupShare, timestamp) ==
  [qrData |-> [share |-> merchantShare],
   emailData |-> [shares |-> <<merchantShare, merchantBackupShare>>,
                  timestamp |-> timestamp, version |-> "1.0"]]

\* ------------------------------------------------------------------------
\* Wallet SDK (WDK): seed phrases and addresses
\* ------------------------------------------------------------------------
\* the phrases bip39.generateMnemonic can return
MnemonicChars == {97, 98}

RECURSIVE SeqsOfLen(_, _)
SeqsOfLen(S, n) ==
  IF n = 0 THEN {<<>>}
  ELSE {<<c>> \o t : c \in S, t \in SeqsOfLen(S, n - 1)}

Mnemonics == SeqsOfLen(MnemonicChars, SeedLen)

\* account.getAddress(): "0x" and the digest of the key derived from the
\* seed, in mixed-case checksum form; different seeds have different
\* addresses
GetAddress(seedPhrase, chain) ==
  LET digest == BytesToHex(Utf8Encode(seedPhrase))
  IN <<IF chain = "bitcoin" THEN 49 ELSE 48, 120>> \o
     Tuple([i \in 1..Len(digest) |->
              IF digest[i] >= 10 /\ (i + digest[i]) % 2 = 0
                THEN HexChar(digest[i]) - 32
                ELSE HexChar(digest[i])])

ToLowerCase(str) ==
  Tuple([i \in 1..Len(str) |->
           IF str[i] >= 65 /\ str[i] <= 90 THEN str[i] + 32 ELSE str[i]])

\* new WDK(seedPhrase): a generated mnemonic is accepted; whether the SDK
\* rejects any other string is not decided by this repository, so both
\* outcomes are kept
InitializeWDK(seedPhrase) ==
  IF seedPhrase \in Mnemonics THEN {Ok(seedPhrase)}
  ELSE {Ok(seedPhrase), Err("InvalidSeed")}

SupportedChains == {"polygon", "ethereum", "avalanche", "bitcoin"}

\* ------------------------------------------------------------------------
\* WalletService.createWalletForUser (the outcomes for one generated seed)
\* ------------------------------------------------------------------------
WalletDataOf(seedPhrase, addresses, shareDistribution, t, impl) ==
     {LET isValid == d.ok /\ ValidateShares(
                       <<shareDistribution.merchantShare,
                         shareDistribution.merchantBackupShare,
                         d.val>>, seedPhrase)
          recoveryPackage == CreateRecoveryPackage(
                               shareDistribution.merchantShare,
                               shareDistribution.merchantBackupShare, t)
      IN IF ~d.ok THEN d
         ELSE IF ~isValid THEN Err("ShareValidationFailed")
         ELSE Ok([addresses |-> addresses,
                  primaryAddress |-> addresses["polygon"],
                  merchantShare |-> shareDistribution.merchantShare,
                  merchantBackupShare |-> shareDistribution.merchantBackupShare,
                  recoveryQR |-> recoveryPackage.qrData,
                  recoveryEmail |-> recoveryPackage.emailData,
                  next |-> shareDistribution.next])
      : d \in DecryptShareVia(impl, shareDistribution.backendShare1, 2)}

CreateWalletForUser(seedPhrase, tape, t, impl) ==
  WalletDataOf(seedPhrase,
               [chain \in SupportedChains |-> GetAddress(seedPhrase, chain)],
               GenerateShareDistribution(seedPhrase, tape, 0), t, impl)

\* ------------------------------------------------------------------------
\* WalletService.recoverWallet (the outcomes for one stored wallet)
\* ------------------------------------------------------------------------
\* the steps after reconstruction, without the comparison of the recovered
\* address with the stored one
DeriveUnverified(wallet, seedPhrase) ==
  IF ~seedPhrase.ok THEN {seedPhrase}
  ELSE {IF ~wdk.ok THEN wdk
        ELSE Ok([success |-> TRUE, address |-> GetAddress(wdk.val, "polygon")])
        : wdk \in InitializeWDK(seedPhrase.val)}

\* the steps after reconstruction: the wallet is derived from the seed and
\* its address compared with the stored one
DeriveAndVerify(wallet, seedPhrase) ==
  IF ~seedPhrase.ok THEN {seedPhrase}
  ELSE {IF ~wdk.ok THEN wdk
        ELSE IF ToLowerCase(GetAddress(wdk.val, "polygon")) # ToLowerCase(wallet.address)
          THEN Err("AddressMismatch")
        ELSE Ok([success |-> TRUE, address |-> GetAddress(wdk.val, "polygon")])
        : wdk \in InitializeWDK(seedPhrase.val)}

ShareThresholdOf(wallet) ==
  IF wallet.shareThreshold = 0 THEN 3 ELSE wallet.shareThreshold

\* a recovery that puts the backend share in front of the merchant's
RecoverWalletBackendFirst(wallet, merchantShares, impl) ==
  UNION {
    IF ~b1.ok THEN {b1}
    ELSE IF ~b2.ok THEN {b2}
    ELSE IF Len(<<b1.val>> \o merchantShares) < ShareThresholdOf(wallet)
      THEN {Err("NotEnoughShares")}
    ELSE DeriveAndVerify(wallet, ReconstructSeedPhrase(<<b1.val>> \o merchantShares))
    : b1 \in DecryptShareVia(impl, wallet.backendShare1, 2),
      b2 \in DecryptShareVia(impl, wallet.backendShare2, 3)}

RecoverWalletOutcomes(wallet, merchantShares, impl) ==
  UNION {
    IF ~b1.ok THEN {b1}
    ELSE IF ~b2.ok THEN {b2}
    ELSE IF Len(merchantShares \o <<b1.val>>) < ShareThresholdOf(wallet)
      THEN {Err("NotEnoughShares")}
    ELSE DeriveAndVerify(wallet, ReconstructSeedPhrase(merchantShares \o <<b1.val>>))
    : b1 \in DecryptShareVia(impl, wallet.backendShare1, 2),
      b2 \in DecryptShareVia(impl, wallet.backendShare2, 3)}

\* ------------------------------------------------------------------------
\* State
\* ------------------------------------------------------------------------
VARIABLES
  otpStore,     \* AuthService otpStore: phone -> [code, expiresAt]
  now,          \* Date.now()
  users,        \* prisma.users: the phones that have a user row (id = phone)
  wallets,      \* prisma.wallets: userId -> wallet row
  keyShares,    \* prisma.keyShares rows
  decryptImpl,  \* the decryptShare implementation installed in the process
  response,     \* what the last request returned to its caller
  vault,        \* merchant side: the recovery data each merchant received
  splitLog,     \* history: userId -> the split calls of that user's onboarding
  walletStore,  \* WalletService walletStore: walletId -> [seedPhrase, createdAt]
  calls,        \* verifyOTP requests in flight: request -> its position and locals
  rowCount,     \* history: table -> unique key -> the rows created under that key
  transactions, \* prisma.transactions: txHash -> transaction row
  webhooksLogs, \* prisma.webhooksLogs rows, in the order of their creation
  deliveries,   \* usdt-incoming requests in flight: request -> its position and locals
  issued        \* history: the tokens verifyOTP has returned

vars == <<otpStore, now, users, wallets, keyShares, decryptImpl, response, vault,
          splitLog, walletStore, calls, rowCount, transactions, webhooksLogs,
          deliveries, issued>>

\* the phone numbers that sign in
Phones == {"p1"}

\* the phone numbers of the runs that follow two phones' OTPs
OtpPhones == Phones \cup {"p2"}

\* the transaction hashes the payment notifier reports
TxHashes == {"h1", "h2"}

\* Math.floor(100000 + Math.random() * 900000): the least and the greatest
\* code that can be drawn
OtpCodes == {100000, 999999}

Tapes == 1..MaxRng

\* the clock advances by one OTP lifetime, or by one millisecond more
TickSteps == {OtpTtl, OtpTtl + 1}

\* the clock values that at most MaxTicks advances reach
Times ==
  {p[1] * OtpTtl + p[2] * (OtpTtl + 1) :
     p \in {q \in (0..MaxTicks) \X (0..MaxTicks) : q[1] + q[2] <= MaxTicks}}

Null == [null |-> TRUE]

\* ------------------------------------------------------------------------
\* AuthService.verifyOTP, new-user part: wallet creation, the second
\* distribution and the rows handed to storeWalletWithShares
\* ------------------------------------------------------------------------
\* the wallet row written by storeWalletWithShares
WalletRow(addresses, primaryAddress, backendShare1, backendShare2) ==
  [address |-> primaryAddress,
   type |-> "shamir-eoa",
   chain |-> "polygon",
   keyManagement |-> "shamir",
   backendShare1 |-> backendShare1,
   backendShare2 |-> backendShare2,
   shareThreshold |-> 3,
   totalShares |-> 5,
   chainAddresses |-> addresses]

\* the keyShares rows written by storeWalletWithShares
KeyShareRows(primaryAddress, backendShare1, backendShare2, optionalShare) ==
  {[walletAddress |-> primaryAddress, shareIndex |-> 2,
    encryptedShare |-> backendShare1, location |-> "backend"],
   [walletAddress |-> primaryAddress, shareIndex |-> 3,
    encryptedShare |-> backendShare2, location |-> "backend"],
   [walletAddress |-> primaryAddress, shareIndex |-> 4,
    encryptedShare |-> optionalShare, location |-> "third_party"]}

Onboarded(seedPhrase, walletData, firstShares, shareDistribution) ==
  Ok([walletData |-> walletData,
      wallet |-> WalletRow(walletData.addresses,
                           walletData.primaryAddress,
                           shareDistribution.backendShare1,
                           shareDistribution.backendShare2),
      keyShares |-> KeyShareRows(walletData.primaryAddress,
                                 shareDistribution.backendShare1,
                                 shareDistribution.backendShare2,
                                 shareDistribution.optionalShare),
      splits |-> <<[secret |-> seedPhrase, shares |-> firstShares],
                   [secret |-> walletData.merchantShare,
                    shares |-> shareDistribution.allShares]>>])

Onboard(seedPhrase, tape, t, impl) ==
  {IF ~walletData.ok THEN walletData
   ELSE Onboarded(seedPhrase, walletData.val,
                  SplitSeedPhrase(seedPhrase, tape, 0).shares,
                  GenerateShareDistribution(walletData.val.merchantShare, tape,
                                            walletData.val.next))
   : walletData \in CreateWalletForUser(seedPhrase, tape, t, impl)}

\* Onboard, tabulated over the inputs the model draws
OnboardTable ==
  [seedPhrase \in Mnemonics, tape \in Tapes, t \in Times, impl \in DecryptImpls |->
     Onboard(seedPhrase, tape, t, impl)]

\* ------------------------------------------------------------------------
\* Requests to the recovery endpoint
\* ------------------------------------------------------------------------
\* one byte of the payload altered, the share still well-formed
Tamper(share) ==
  [share EXCEPT ![Len(share)] = HexChar(Xor(HexVal(share[Len(share)]), 1))]

\* share lists a caller may send, built from the merchant's two shares
\* m0, m1 and a third share s3 of the seed's split
RecoverInputsOf(m0, m1, s3) ==
  LET held == {m0, m1, Tamper(m0)}
  IN {<<>>}
     \cup {<<a>> : a \in held}
     \cup {<<a, b>> : a \in held, b \in held}
     \cup {<<m0, m1, s3>>, <<s3, m0, m1>>, <<Tamper(m0), m1, s3>>, <<m0, m0, m1>>}
     \cup {<<m0, m1, s3, Tamper(m0)>>, <<Tamper(m0), m1, s3, m0>>}

\* RecoverWalletOutcomes, tabulated over the wallets and share lists the
\* model draws
RecoverKeys ==
  UNION {UNION {{<<o.val.wallet, in, impl>> :
                   in \in RecoverInputsOf(o.val.walletData.merchantShare,
                                          o.val.walletData.merchantBackupShare,
                                          o.val.splits[1].shares[3]),
                   impl \in DecryptImpls}
                : o \in {x \in OnboardTable[k] : x.ok}}
         : k \in DOMAIN OnboardTable}

RecoverTable == [k \in RecoverKeys |-> RecoverWalletOutcomes(k[1], k[2], k[3])]

RecoverWalletVia(wallet, merchantShares, impl) ==
  IF <<wallet, merchantShares, impl>> \in RecoverKeys
    THEN RecoverTable[<<wallet, merchantShares, impl>>]
    ELSE RecoverWalletOutcomes(wallet, merchantShares, impl)

\* ------------------------------------------------------------------------
\* Initial state
\* ------------------------------------------------------------------------
Init ==
  /\ otpStore = <<>>
  /\ now = 0
  /\ users = {}
  /\ wallets = <<>>
  /\ keyShares = {}
  /\ decryptImpl = "real"
  /\ response = [op |-> "none"]
  /\ vault = <<>>
  /\ splitLog = <<>>
  /\ walletStore = <<>>
  /\ calls = <<>>
  /\ rowCount = [users |-> [phone \in OtpPhones |-> 0],
                 wallets |-> [phone \in OtpPhones |-> 0],
                 transactions |-> [txHash \in TxHashes |-> 0]]
  /\ transactions = <<>>
  /\ webhooksLogs = <<>>
  /\ deliveries = <<>>
  /\ issued = {}

\* a delete that leaves the entry where it is
RemoveNothing(f, k) == f

\* an expiry test that never finds an OTP expired
NeverExpired(storedOTP, t) == FALSE

\* storedOTP.expiresAt < Date.now()
Expired(storedOTP, t) == storedOTP.expiresAt < t

\* a comparison that takes every code for the stored one
NeverMismatch(storedOTP, code) == FALSE

\* storedOTP.code !== code
Mismatch(storedOTP, code) == storedOTP.code # code

Remove(f, k) == [x \in (DOMAIN f) \ {k} |-> f[x]]

\* a set that drops every other entry
PutAlone(f, k, v) == [x \in {k} |-> v]

Put(f, k, v) == [x \in (DOMAIN f) \cup {k} |-> IF x = k THEN v ELSE f[x]]

\* ------------------------------------------------------------------------
\* The clock
\* ------------------------------------------------------------------------
Tick(d) ==
  /\ now + d \in Times
  /\ now' = now + d
  /\ UNCHANGED <<otpStore, users, wallets, keyShares, decryptImpl, response, vault, splitLog, walletStore, calls, rowCount, transactions, webhooksLogs, deliveries, issued>>

\* ------------------------------------------------------------------------
\* AuthService.requestOTP
\* ------------------------------------------------------------------------
RequestOTP(phone, code) ==
  /\ otpStore' = Put(otpStore, phone, [code |-> code, expiresAt |-> now + OtpTtl])
  /\ response' = [op |-> "requestOTP", phone |-> phone,
                  result |-> Ok([success |-> TRUE, message |-> "OTP sent"])]
  /\ UNCHANGED <<now, users, wallets, keyShares, decryptImpl, vault, splitLog, walletStore, calls, rowCount, transactions, webhooksLogs, deliveries, issued>>

\* ------------------------------------------------------------------------
\* AuthService.verifyOTP
\* ------------------------------------------------------------------------
\* a text is the sequence of its pieces: an id, a colon, a number of
\* milliseconds
Colon == [colon |-> TRUE]

\* `${user.id}:${Date.now()}`
TokenText(userId, t) == <<[id |-> userId], Colon, [ms |-> t]>>

\* Buffer.from(text).toString('base64') and Buffer.from(token, 'base64')
\* .toString('utf-8'): an encoding anyone can apply and undo
Base64(text) == [base64 |-> text]

Base64Decode(token) == token.base64

Token(userId, t) == Base64(TokenText(userId, t))

VerifyResponse(phone, code, result) ==
  [op |-> "verifyOTP", phone |-> phone, code |-> code, result |-> result]

\* a query that finds no user, whatever the table holds
FindUniqueNull(phone) == FALSE

\* prisma.users.findUnique({ where: { phone } }): is there a user row
FindUnique(phone) == phone \in users

VerifyOTP(phone, code, seedPhrase, tape) ==
  IF phone \notin DOMAIN otpStore THEN
    /\ response' = VerifyResponse(phone, code, Err("OTP not found or expired"))
    /\ UNCHANGED <<otpStore, now, users, wallets, keyShares, decryptImpl, vault, splitLog, walletStore, calls, rowCount, transactions, webhooksLogs, deliveries, issued>>
  ELSE IF Expired(otpStore[phone], now) THEN
    /\ otpStore' = Remove(otpStore, phone)
    /\ response' = VerifyResponse(phone, code, Err("OTP expired"))
    /\ UNCHANGED <<now, users, wallets, keyShares, decryptImpl, vault, splitLog, walletStore, calls, rowCount, transactions, webhooksLogs, deliveries, issued>>
  ELSE IF Mismatch(otpStore[phone], code) THEN
    /\ response' = VerifyResponse(phone, code, Err("Invalid OTP"))
    /\ UNCHANGED <<otpStore, now, users, wallets, keyShares, decryptImpl, vault, splitLog, walletStore, calls, rowCount, transactions, webhooksLogs, deliveries, issued>>
  ELSE IF FindUnique(phone) THEN
    /\ otpStore' = Remove(otpStore, phone)
    /\ response' = VerifyResponse(phone, code,
         Ok([token |-> Token(phone, now),
             user |-> [id |-> phone, phone |-> phone,
                       wallet_addresses |->
                         IF phone \in DOMAIN wallets
                           THEN wallets[phone].chainAddresses ELSE Null],
             recovery |-> Null]))
    /\ issued' = issued \cup {Token(phone, now)}
    /\ UNCHANGED <<now, users, wallets, keyShares, decryptImpl, vault, splitLog, walletStore, calls, rowCount, transactions, webhooksLogs, deliveries>>
  ELSE
    \* bip39.generateMnemonic(256) draws fresh entropy: no earlier seed again
    /\ \A u \in DOMAIN splitLog : splitLog[u][1].secret # seedPhrase
    /\ otpStore' = Remove(otpStore, phone)
    /\ \E o \in OnboardTable[seedPhrase, tape, now, decryptImpl] :
         IF ~o.ok THEN
           /\ response' = VerifyResponse(phone, code, o)
           /\ UNCHANGED <<now, users, wallets, keyShares, decryptImpl, vault, splitLog, walletStore, calls, rowCount, transactions, webhooksLogs, deliveries, issued>>
         ELSE
           /\ users' = users \cup {phone}
           /\ wallets' = Put(wallets, phone, o.val.wallet)
           /\ keyShares' = keyShares \cup o.val.keyShares
           /\ vault' = Put(vault, phone,
                           [merchantShare |-> o.val.walletData.merchantShare,
                            merchantBackupShare |-> o.val.walletData.merchantBackupShare])
           /\ splitLog' = Put(splitLog, phone, o.val.splits)
           /\ response' = VerifyResponse(phone, code,
                Ok([token |-> Token(phone, now),
                    user |-> [id |-> phone, phone |-> phone,
                              wallet_addresses |-> o.val.wallet.chainAddresses],
                    recovery |-> [merchantShare |-> o.val.walletData.merchantShare,
                                  merchantBackupShare |-> o.val.walletData.merchantBackupShare,
                                  recoveryQR |-> o.val.walletData.recoveryQR,
                                  recoveryEmail |-> o.val.walletData.recoveryEmail]]))
           /\ rowCount' = [rowCount EXCEPT !["users"][phone] = @ + 1,
                                            !["wallets"][phone] = @ + 1]
           /\ issued' = issued \cup {Token(phone, now)}
           /\ UNCHANGED <<now, decryptImpl, walletStore, calls, transactions, webhooksLogs, deliveries>>

\* ------------------------------------------------------------------------
\* WalletService.recoverWallet
\* ------------------------------------------------------------------------
RecoverInputs(userId) ==
  IF userId \in DOMAIN vault /\ userId \in DOMAIN splitLog
    THEN RecoverInputsOf(vault[userId].merchantShare,
                         vault[userId].merchantBackupShare,
                         splitLog[userId][1].shares[3])
    ELSE {<<>>}

\* a recovery that retires the stored record once it has answered
RecoverWalletConsuming(userId, merchantShares) ==
  /\ \E result \in (IF userId \notin DOMAIN wallets
                      THEN {Err("Wallet not found")}
                      ELSE RecoverWalletVia(wallets[userId], merchantShares, decryptImpl)) :
       response' = [op |-> "recoverWallet", userId |-> userId,
                    merchantShares |-> merchantShares, result |-> result]
  /\ wallets' = Remove(wallets, userId)
  /\ UNCHANGED <<otpStore, now, users, keyShares, decryptImpl, vault, splitLog,
                 walletStore, calls, rowCount, transactions, webhooksLogs, deliveries, issued>>

RecoverWallet(userId, merchantShares) ==
  /\ \E result \in (IF userId \notin DOMAIN wallets
                      THEN {Err("Wallet not found")}
                      ELSE RecoverWalletVia(wallets[userId], merchantShares, decryptImpl)) :
       response' = [op |-> "recoverWallet", userId |-> userId,
                    merchantShares |-> merchantShares, result |-> result]
  /\ UNCHANGED <<otpStore, now, users, wallets, keyShares, decryptImpl, vault, splitLog, walletStore, calls, rowCount, transactions, webhooksLogs, deliveries, issued>>

\* ------------------------------------------------------------------------
\* Specification
\* ------------------------------------------------------------------------
Next ==
  \/ \E d \in TickSteps : Tick(d)
  \/ \E phone \in Phones, code \in OtpCodes : RequestOTP(phone, code)
  \/ \E phone \in Phones, code \in OtpCodes, seedPhrase \in Mnemonics, tape \in Tapes :
       VerifyOTP(phone, code, seedPhrase, tape)
  \/ \E userId \in Phones : \E merchantShares \in RecoverInputs(userId) :
       RecoverWallet(userId, merchantShares)

Spec == Init /\ [][Next]_vars

\* ------------------------------------------------------------------------
\* KeyShareService called directly: a caller splits a secret and hands
\* some of the shares it got back to reconstructSeedPhrase
\* ------------------------------------------------------------------------
\* characters of the secrets: the mnemonic characters, a character whose
\* byte has a zero high nibble and one that takes two bytes in UTF-8
SecretChars == MnemonicChars \cup {10, 233}

Secrets == SeqsOfLen(SecretChars, SeedLen)

\* the share positions a caller picks, in the order it passes them
ShareChoices == UNION {[1..n -> 1..TOTAL_SHARES] : n \in 0..THRESHOLD}

SplitShares == [seedPhrase \in Secrets, tape \in Tapes |->
                  SplitSeedPhrase(seedPhrase, tape, 0).shares]

SplitSeedPhraseCall(seedPhrase, tape) ==
  /\ response' = [op |-> "splitSeedPhrase", seedPhrase |-> seedPhrase, tape |-> tape,
                  shares |-> SplitShares[seedPhrase, tape]]
  /\ UNCHANGED <<otpStore, now, users, wallets, keyShares, decryptImpl, vault, splitLog, walletStore, calls, rowCount, transactions, webhooksLogs, deliveries, issued>>

ReconstructSeedPhraseCall(choice) ==
  /\ response.op = "splitSeedPhrase"
  /\ LET input == Tuple([i \in 1..Len(choice) |-> response.shares[choice[i]]])
     IN response' = [op |-> "reconstructSeedPhrase",
                     seedPhrase |-> response.seedPhrase,
                     shares |-> response.shares,
                     input |-> input,
                     result |-> ReconstructSeedPhrase(input)]
  /\ UNCHANGED <<otpStore, now, users, wallets, keyShares, decryptImpl, vault, splitLog, walletStore, calls, rowCount, transactions, webhooksLogs, deliveries, issued>>

\* a second split of the secret just split; the random source does not
\* repeat what it gave the first call
SplitSeedPhraseAgain(tape) ==
  /\ response.op = "splitSeedPhrase"
  /\ "earlier" \notin DOMAIN response
  /\ tape # response.tape
  /\ response' = [op |-> "splitSeedPhrase", seedPhrase |-> response.seedPhrase,
                  tape |-> tape,
                  shares |-> SplitShares[response.seedPhrase, tape],
                  earlier |-> response.shares]
  /\ UNCHANGED <<otpStore, now, users, wallets, keyShares, decryptImpl, vault,
                 splitLog, walletStore, calls, rowCount, transactions, webhooksLogs, deliveries, issued>>

NextKS ==
  \/ \E seedPhrase \in Secrets, tape \in Tapes : SplitSeedPhraseCall(seedPhrase, tape)
  \/ \E tape \in Tapes : SplitSeedPhraseAgain(tape)
  \/ \E choice \in ShareChoices : ReconstructSeedPhraseCall(choice)

SpecKS == Init /\ [][NextKS]_vars

\* ------------------------------------------------------------------------
\* Onboarding with KeyShareService.decryptShare replaced
\* ------------------------------------------------------------------------
InstallDecrypt(impl) ==
  /\ decryptImpl' = impl
  /\ response' = [op |-> "installDecrypt", impl |-> impl]
  /\ UNCHANGED <<otpStore, now, users, wallets, keyShares, vault, splitLog, walletStore, calls, rowCount, transactions, webhooksLogs, deliveries, issued>>

NextFault ==
  \/ \E impl \in DecryptImpls : InstallDecrypt(impl)
  \/ \E phone \in Phones, code \in OtpCodes : RequestOTP(phone, code)
  \/ \E phone \in Phones, code \in OtpCodes, seedPhrase \in Mnemonics, tape \in Tapes :
       VerifyOTP(phone, code, seedPhrase, tape)

SpecFault == Init /\ [][NextFault]_vars

\* ------------------------------------------------------------------------
\* AuthService.verifyOTP, request by request: a request runs up to its next
\* await, where the requests in flight interleave
\* ------------------------------------------------------------------------
Calls == 1..MaxCalls

\* a store that accepts a second row with the key of an existing one
NoConflict(keys, k) == FALSE

\* users.phone and wallets.userId are keys that findUnique accepts, so
\* unique: a create with a key that has a row is rejected
Conflict(keys, k) == k \in keys

Done(call, result) ==
  [pc |-> "done", phone |-> call.phone, result |-> result]

\* the answer of a request is kept with the request, in calls
\* lines 50-73: the OTP checks, the deletion of the OTP and the query for
\* the user being sent
VerifyOTPBegin(c, phone, code) ==
  \* requests are numbered in the order of their arrival
  /\ c = Cardinality(DOMAIN calls) + 1
  /\ LET call == [phone |-> phone]
     IN IF phone \notin DOMAIN otpStore THEN
          /\ calls' = Put(calls, c, Done(call, Err("OTP not found or expired")))
          /\ UNCHANGED otpStore
        ELSE IF Expired(otpStore[phone], now) THEN
          /\ otpStore' = Remove(otpStore, phone)
          /\ calls' = Put(calls, c, Done(call, Err("OTP expired")))
        ELSE IF Mismatch(otpStore[phone], code) THEN
          /\ calls' = Put(calls, c, Done(call, Err("Invalid OTP")))
          /\ UNCHANGED otpStore
        ELSE
          /\ otpStore' = Remove(otpStore, phone)
          /\ calls' = Put(calls, c, [pc |-> "findUnique", phone |-> phone])
  /\ UNCHANGED <<now, users, wallets, keyShares, decryptImpl, response, vault,
                 splitLog, walletStore, rowCount, transactions, webhooksLogs, deliveries, issued>>

\* lines 70-77 and, for a user that exists, 131-141
VerifyOTPFindUser(c) ==
  /\ c \in DOMAIN calls
  /\ calls[c].pc = "findUnique"
  /\ IF FindUnique(calls[c].phone)
       THEN LET result == Ok([token |-> Token(calls[c].phone, now),
                              user |-> [id |-> calls[c].phone, phone |-> calls[c].phone,
                                        wallet_addresses |->
                                          IF calls[c].phone \in DOMAIN wallets
                                            THEN wallets[calls[c].phone].chainAddresses
                                            ELSE Null],
                              recovery |-> Null])
            IN /\ calls' = [calls EXCEPT ![c] = Done(calls[c], result)]
               /\ issued' = issued \cup {Token(calls[c].phone, now)}
       ELSE /\ calls' = [calls EXCEPT ![c].pc = "createWalletForUser"]
            /\ UNCHANGED issued
  /\ UNCHANGED <<otpStore, now, users, wallets, keyShares, decryptImpl, response, vault,
                 splitLog, walletStore, rowCount, transactions, webhooksLogs, deliveries>>

\* the seeds generated so far by requests in flight
SeedsInFlight == {calls[c].seedPhrase : c \in {x \in DOMAIN calls : "seedPhrase" \in DOMAIN calls[x]}}

\* line 80
VerifyOTPCreateWallet(c, seedPhrase, tape) ==
  /\ c \in DOMAIN calls
  /\ calls[c].pc = "createWalletForUser"
  /\ seedPhrase \notin SeedsInFlight
  /\ \A u \in DOMAIN splitLog : splitLog[u][1].secret # seedPhrase
  /\ \E o \in OnboardTable[seedPhrase, tape, now, decryptImpl] :
       IF ~o.ok
         THEN /\ calls' = [calls EXCEPT ![c] = Done(calls[c], o)]
         ELSE /\ calls' = [calls EXCEPT ![c] =
                             [pc |-> "users.create", phone |-> calls[c].phone,
                              seedPhrase |-> seedPhrase,
                              tape |-> tape, onboard |-> o.val]]
  /\ UNCHANGED <<otpStore, now, users, wallets, keyShares, decryptImpl, response, vault,
                 splitLog, walletStore, rowCount, transactions, webhooksLogs, deliveries, issued>>

\* lines 83-101 up to the first await of storeWalletWithShares
VerifyOTPCreateUser(c) ==
  /\ c \in DOMAIN calls
  /\ calls[c].pc = "users.create"
  /\ IF Conflict(users, calls[c].phone)
       THEN /\ calls' = [calls EXCEPT ![c] = Done(calls[c], Err("UniqueConstraint"))]
            /\ UNCHANGED <<users, rowCount>>
       ELSE /\ users' = users \cup {calls[c].phone}
            /\ rowCount' = [rowCount EXCEPT !["users"][calls[c].phone] = @ + 1]
            /\ calls' = [calls EXCEPT ![c].pc = "wallets.create"]
  /\ UNCHANGED <<otpStore, now, wallets, keyShares, decryptImpl, response, vault, splitLog, walletStore, transactions, webhooksLogs, deliveries, issued>>

\* storeWalletWithShares, prisma.wallets.create
StoreWalletRow(c) ==
  /\ c \in DOMAIN calls
  /\ calls[c].pc = "wallets.create"
  /\ IF Conflict(DOMAIN wallets, calls[c].phone)
       THEN /\ calls' = [calls EXCEPT ![c] = Done(calls[c], Err("UniqueConstraint"))]
            /\ UNCHANGED <<wallets, rowCount>>
       ELSE /\ wallets' = Put(wallets, calls[c].phone, calls[c].onboard.wallet)
            /\ rowCount' = [rowCount EXCEPT !["wallets"][calls[c].phone] = @ + 1]
            /\ calls' = [calls EXCEPT ![c].pc = "keyShares.createMany"]
  /\ UNCHANGED <<otpStore, now, users, keyShares, decryptImpl, response, vault, splitLog, walletStore, transactions, webhooksLogs, deliveries, issued>>

\* storeWalletWithShares, prisma.keyShares.createMany
StoreKeyShareRows(c) ==
  /\ c \in DOMAIN calls
  /\ calls[c].pc = "keyShares.createMany"
  /\ keyShares' = keyShares \cup calls[c].onboard.keyShares
  /\ calls' = [calls EXCEPT ![c].pc = "refetch"]
  /\ UNCHANGED <<otpStore, now, users, wallets, decryptImpl, response, vault,
                 splitLog, walletStore, rowCount, transactions, webhooksLogs, deliveries, issued>>

\* lines 104-141: the user is read again and the answer returned
VerifyOTPReturn(c) ==
  /\ c \in DOMAIN calls
  /\ calls[c].pc = "refetch"
  /\ LET walletData == calls[c].onboard.walletData
         result == Ok([token |-> Token(calls[c].phone, now),
                       user |-> [id |-> calls[c].phone, phone |-> calls[c].phone,
                                 wallet_addresses |->
                                   IF calls[c].phone \in DOMAIN wallets
                                     THEN wallets[calls[c].phone].chainAddresses
                                     ELSE Null],
                       recovery |-> [merchantShare |-> walletData.merchantShare,
                                     merchantBackupShare |-> walletData.merchantBackupShare,
                                     recoveryQR |-> walletData.recoveryQR,
                                     recoveryEmail |-> walletData.recoveryEmail]])
     IN /\ calls' = [calls EXCEPT ![c] =
                       [pc |-> "done", phone |-> calls[c].phone,
                        seedPhrase |-> calls[c].seedPhrase, tape |-> calls[c].tape,
                        result |-> result]]
        /\ vault' = Put(vault, calls[c].phone,
                        [merchantShare |-> walletData.merchantShare,
                         merchantBackupShare |-> walletData.merchantBackupShare])
        /\ splitLog' = Put(splitLog, calls[c].phone, calls[c].onboard.splits)
        /\ issued' = issued \cup {Token(calls[c].phone, now)}
  /\ UNCHANGED <<otpStore, now, users, wallets, keyShares, decryptImpl, response, walletStore, rowCount, transactions, webhooksLogs, deliveries>>

NextConc ==
  \/ \E phone \in Phones, code \in OtpCodes : RequestOTP(phone, code)
  \/ \E c \in Calls, phone \in Phones, code \in OtpCodes : VerifyOTPBegin(c, phone, code)
  \/ \E c \in Calls : VerifyOTPFindUser(c)
  \/ \E c \in Calls, seedPhrase \in Mnemonics, tape \in Tapes :
       VerifyOTPCreateWallet(c, seedPhrase, tape)
  \/ \E c \in Calls : VerifyOTPCreateUser(c)
  \/ \E c \in Calls : StoreWalletRow(c)
  \/ \E c \in Calls : StoreKeyShareRows(c)
  \/ \E c \in Calls : VerifyOTPReturn(c)

SpecConc == Init /\ [][NextConc]_vars

\* ------------------------------------------------------------------------
\* WalletService.createWallet, the wallet endpoint next to onboarding and
\* recovery
\* ------------------------------------------------------------------------
\* randomBytes(16).toString('hex'): two of the ids that can be drawn
WalletIds == {"w1", "w2"}

CreateWallet(walletId, seedPhrase) ==
  /\ \E wdk \in InitializeWDK(seedPhrase) :
       IF ~wdk.ok
         THEN /\ response' = [op |-> "createWallet", result |-> wdk]
              /\ UNCHANGED walletStore
         ELSE /\ walletStore' = Put(walletStore, walletId,
                                    [seedPhrase |-> seedPhrase, createdAt |-> now])
              /\ response' = [op |-> "createWallet",
                              result |-> Ok([walletId |-> walletId,
                                             seedPhrase |-> seedPhrase,
                                             addresses |-> [chain \in SupportedChains |->
                                                              GetAddress(wdk.val, chain)]])]
  /\ UNCHANGED <<otpStore, now, users, wallets, keyShares, decryptImpl, vault,
                 splitLog, calls, rowCount, transactions, webhooksLogs, deliveries, issued>>

NextWallet ==
  \/ \E walletId \in WalletIds, seedPhrase \in Mnemonics : CreateWallet(walletId, seedPhrase)
  \/ \E phone \in Phones, code \in OtpCodes : RequestOTP(phone, code)
  \/ \E phone \in Phones, code \in OtpCodes, seedPhrase \in Mnemonics, tape \in Tapes :
       VerifyOTP(phone, code, seedPhrase, tape)
  \/ \E userId \in Phones : \E merchantShares \in RecoverInputs(userId) :
       RecoverWallet(userId, merchantShares)

SpecWallet == Init /\ [][NextWallet]_vars

\* ------------------------------------------------------------------------
\* Recovery over a damaged store: the IV part of a stored backendShare1
\* no longer is the one the share was encrypted with
\* ------------------------------------------------------------------------
CorruptBackendShare(userId) ==
  /\ userId \in DOMAIN wallets
  /\ wallets[userId].backendShare1.iv = wallets[userId].backendShare1.encrypted.iv
  /\ wallets' = [wallets EXCEPT ![userId].backendShare1.iv = Xor(@, 1)]
  /\ response' = [op |-> "corruptBackendShare", userId |-> userId]
  /\ UNCHANGED <<otpStore, now, users, keyShares, decryptImpl, vault, splitLog,
                 walletStore, calls, rowCount, transactions, webhooksLogs, deliveries, issued>>

NextCorrupt ==
  \/ \E phone \in Phones, code \in OtpCodes : RequestOTP(phone, code)
  \/ \E phone \in Phones, code \in OtpCodes, seedPhrase \in Mnemonics, tape \in Tapes :
       VerifyOTP(phone, code, seedPhrase, tape)
  \/ \E userId \in Phones : CorruptBackendShare(userId)
  \/ \E userId \in Phones : \E merchantShares \in RecoverInputs(userId) :
       RecoverWallet(userId, merchantShares)

SpecCorrupt == Init /\ [][NextCorrupt]_vars

\* ------------------------------------------------------------------------
\* Readings of the state used by the properties
\* ------------------------------------------------------------------------
Range(s) == {s[i] : i \in DOMAIN s}

\* the seed phrase generated for a user's wallet: the secret of the first
\* split of the onboarding, the one made by createWalletForUser
SeedOf(userId) == splitLog[userId][1].secret

\* the plaintext of backendShare1 as recoverWallet obtains it
BackendShare1Of(userId) ==
  {d.val : d \in {x \in DecryptShare(wallets[userId].backendShare1, 2) : x.ok}}

\* the shares readable from the backend's rows of a user: the wallets
\* row's two encrypted shares and the keyShares rows, each backend row
\* decrypted under its index, the third-party row as it is stored
StoredShares(userId) ==
  BackendShare1Of(userId)
  \cup {d.val : d \in {x \in DecryptShare(wallets[userId].backendShare2, 3) : x.ok}}
  \cup UNION {IF r.location = "backend"
                THEN {d.val : d \in {x \in DecryptShare(r.encryptedShare, r.shareIndex) : x.ok}}
                ELSE {r.encryptedShare}
              : r \in {k \in keyShares : k.walletAddress = wallets[userId].address}}

\* the shares the merchant of a user received
MerchantShares(userId) ==
  {vault[userId].merchantShare, vault[userId].merchantBackupShare}

\* a recoverWallet request for an onboarded user has just been answered
Recovered(userId) ==
  /\ response.op = "recoverWallet"
  /\ response.userId = userId
  /\ userId \in DOMAIN wallets

\* the addresses recoverWallet's reconstruction derives from a share list
DerivedAddresses(userId, merchantShares) ==
  {GetAddress(seed.val, "polygon") :
     seed \in {r \in {ReconstructSeedPhrase(merchantShares \o <<b>>) :
                        b \in BackendShare1Of(userId)} : r.ok}}

\* verifyOTP has just answered on its new-user path: the OTP was accepted
\* and no user row existed
NewUserAnswer ==
  /\ response.op = "verifyOTP"
  /\ \/ response.result.ok /\ response.result.val.recovery # Null
     \/ ~response.result.ok
        /\ response.result.err \notin {"OTP not found or expired", "OTP expired", "Invalid OTP"}

\* ------------------------------------------------------------------------
\* KeyShareService.encryptShare and decryptShare called directly: a caller
\* encrypts a share under an index and decrypts the result under an index
\* ------------------------------------------------------------------------
\* the shares of every split the model draws
AllShares == UNION {Range(SplitShares[k]) : k \in DOMAIN SplitShares}

ShareIndexes == 0..(TOTAL_SHARES - 1)

\* randomBytes(16): the values the random source gives at one position
IVs == {Rng(tape, 0) : tape \in Tapes}

EncryptShareCall(share, shareIndex, iv) ==
  /\ response.op = "none"
  /\ response' = [op |-> "encryptShare", share |-> share, shareIndex |-> shareIndex,
                  result |-> EncryptShare(share, shareIndex, iv)]
  /\ UNCHANGED <<otpStore, now, users, wallets, keyShares, decryptImpl, vault,
                 splitLog, walletStore, calls, rowCount, transactions, webhooksLogs, deliveries, issued>>

DecryptShareCall(shareIndex) ==
  /\ response.op = "encryptShare"
  /\ \E result \in DecryptShare(response.result, shareIndex) :
       response' = [op |-> "decryptShare", share |-> response.share,
                    encryptedUnder |-> response.shareIndex,
                    encryptedShare |-> response.result,
                    shareIndex |-> shareIndex, result |-> result]
  /\ UNCHANGED <<otpStore, now, users, wallets, keyShares, decryptImpl, vault,
                 splitLog, walletStore, calls, rowCount, transactions, webhooksLogs, deliveries, issued>>

NextEnc ==
  \/ \E share \in AllShares, shareIndex \in ShareIndexes, iv \in IVs :
       EncryptShareCall(share, shareIndex, iv)
  \/ \E shareIndex \in ShareIndexes : DecryptShareCall(shareIndex)

SpecEnc == Init /\ [][NextEnc]_vars

\* ------------------------------------------------------------------------
\* KeyShareService.generateShareDistribution called directly; the caller
\* then opens one of the two backend shares under an index
\* ------------------------------------------------------------------------
GenerateShareDistributionCall(seedPhrase, tape) ==
  /\ response.op = "none"
  /\ response' = [op |-> "generateShareDistribution", seedPhrase |-> seedPhrase,
                  tape |-> tape,
                  result |-> GenerateShareDistribution(seedPhrase, tape, 0)]
  /\ UNCHANGED <<otpStore, now, users, wallets, keyShares, decryptImpl, vault,
                 splitLog, walletStore, calls, rowCount, transactions, webhooksLogs, deliveries, issued>>

OpenBackendShare(field, shareIndex) ==
  /\ response.op = "generateShareDistribution"
  /\ \E result \in DecryptShare(response.result[field], shareIndex) :
       response' = [op |-> "openBackendShare", seedPhrase |-> response.seedPhrase,
                    tape |-> response.tape, field |-> field,
                    shareIndex |-> shareIndex, result |-> result]
  /\ UNCHANGED <<otpStore, now, users, wallets, keyShares, decryptImpl, vault,
                 splitLog, walletStore, calls, rowCount, transactions, webhooksLogs, deliveries, issued>>

NextDist ==
  \/ \E seedPhrase \in Secrets, tape \in Tapes : GenerateShareDistributionCall(seedPhrase, tape)
  \/ \E field \in {"backendShare1", "backendShare2"}, shareIndex \in ShareIndexes :
       OpenBackendShare(field, shareIndex)

SpecDist == Init /\ [][NextDist]_vars

\* ------------------------------------------------------------------------
\* Properties
\* ------------------------------------------------------------------------
\* C1: after onboarding, recoverWallet called with exactly the two merchant
\* shares verifyOTP returned succeeds and returns the primary address
\* recorded at creation.
C1_StandardRecoverySucceeds ==
  \A u \in DOMAIN vault :
    (Recovered(u)
     /\ response.merchantShares = <<vault[u].merchantShare, vault[u].merchantBackupShare>>)
    => (response.result.ok /\ response.result.val.address = wallets[u].address)

\* C2: in every state, the shares stored for a wallet and the two shares
\* handed to its merchant all come from one single split of that wallet's
\* seed phrase.
C2_SharesFromOneSplitOfSeed ==
  \A u \in DOMAIN wallets :
    \E k \in DOMAIN splitLog[u] :
      /\ splitLog[u][k].secret = SeedOf(u)
      /\ (StoredShares(u) \cup MerchantShares(u)) \subseteq Range(splitLog[u][k].shares)

\* C3: for every secret, reconstructing from any 3 distinct shares of one
\* 5/3 split of it, in any order, returns exactly that secret.
C3_AnyThreeDistinctSharesReconstruct ==
  (response.op = "reconstructSeedPhrase"
   /\ Len(response.input) = THRESHOLD
   /\ Cardinality(Range(response.input)) = THRESHOLD)
  => response.result = Ok(response.seedPhrase)

\* C3 witness: three distinct shares, passed out of order, of a secret with
\* a two-byte character gave the secret back.
C3_Witness ==
  /\ response.op = "reconstructSeedPhrase"
  /\ response.input = <<response.shares[5], response.shares[1], response.shares[3]>>
  /\ Len(Utf8Encode(response.seedPhrase)) > Len(response.seedPhrase)
  /\ response.result = Ok(response.seedPhrase)

\* C4: reconstruction from fewer than 3 distinct shares of a split, whatever
\* the length of the array, fails with the insufficient-shares error and
\* returns no value.
C4_FewerThanThresholdFails ==
  (response.op = "reconstructSeedPhrase"
   /\ Cardinality(Range(response.input)) < THRESHOLD)
  => response.result = Err("NeedAtLeastThresholdShares")

\* C5: for every wallet, the backend's rows hold at most 2 shares of any
\* one split, fewer than the wallet's shareThreshold.
C5_BackendBelowThreshold ==
  \A u \in DOMAIN wallets :
    \A k \in DOMAIN splitLog[u] :
      LET held == StoredShares(u) \cap Range(splitLog[u][k].shares)
      IN Cardinality(held) <= 2 /\ Cardinality(held) < wallets[u].shareThreshold

\* C6: recoverWallet fails with the insufficient-shares error whenever the
\* merchant-supplied shares together with the decrypted backendShare1 are
\* fewer than shareThreshold different shares.
C6_SmallCandidateSetIsInsufficient ==
  \A u \in DOMAIN wallets :
    (Recovered(u)
     /\ Cardinality(Range(response.merchantShares) \cup BackendShare1Of(u))
          < wallets[u].shareThreshold)
    => response.result = Err("NotEnoughShares")

\* C7: recoverWallet called with the merchant's backup share alone
\* succeeds, the backend contributing two stored shares.
C7_LostDeviceRecoverySucceeds ==
  \A u \in DOMAIN vault :
    (Recovered(u) /\ response.merchantShares = <<vault[u].merchantBackupShare>>)
    => response.result.ok

\* C8: recoverWallet succeeds only with the address derived from the
\* reconstructed secret, and only if that address equals the stored one
\* up to letter case; when every derived address differs it fails.
C8_SuccessOnlyOnAddressMatch ==
  \A u \in DOMAIN wallets :
    Recovered(u) =>
      LET derived == DerivedAddresses(u, response.merchantShares)
          stored == ToLowerCase(wallets[u].address)
      IN /\ response.result.ok =>
              /\ response.result.val.address \in derived
              /\ ToLowerCase(response.result.val.address) = stored
         /\ (\A a \in derived : ToLowerCase(a) # stored) => ~response.result.ok

\* C8 witness: a recovery succeeded and returned the stored address.
C8_Witness ==
  \E u \in DOMAIN wallets :
    /\ Recovered(u)
    /\ response.result.ok
    /\ response.result.val.address = wallets[u].address

\* C10: when the self-check of wallet creation cannot reproduce the seed
\* because decryptShare is broken, onboarding fails with the
\* share-validation-failed error and no user, wallet or key-share row is
\* written.
C10_BrokenDecryptFailsValidation ==
  (NewUserAnswer /\ decryptImpl # "real")
  => /\ response.result = Err("ShareValidationFailed")
     /\ response.phone \notin users
     /\ response.phone \notin DOMAIN wallets
     /\ \A r \in keyShares :
          \E u \in DOMAIN wallets : r.walletAddress = wallets[u].address

\* C11: however concurrent verifyOTP requests for one phone interleave, at
\* most one user row and at most one wallet row are created for that phone,
\* and the merchant share a request returns comes from the split of the
\* seed whose address the stored wallet row carries.
C11_OneRecordPerPhone ==
  \A p \in Phones :
    /\ rowCount["users"][p] <= 1
    /\ rowCount["wallets"][p] <= 1
    /\ \A c \in DOMAIN calls :
         (calls[c].pc = "done" /\ calls[c].phone = p
          /\ calls[c].result.ok /\ calls[c].result.val.recovery # Null)
         => /\ p \in DOMAIN wallets
            /\ wallets[p].address = GetAddress(calls[c].seedPhrase, "polygon")
            /\ calls[c].result.val.recovery.merchantShare
                 = SplitShares[calls[c].seedPhrase, calls[c].tape][1]

\* two requests for one phone both passed the OTP check and both found no
\* user; one has returned recovery data, the other was rejected
C11_Witness ==
  \E c1 \in DOMAIN calls, c2 \in DOMAIN calls :
    /\ c1 # c2
    /\ calls[c1].phone = calls[c2].phone
    /\ calls[c1].pc = "done" /\ calls[c1].result.ok
    /\ calls[c1].result.val.recovery # Null
    /\ calls[c2].pc = "done" /\ calls[c2].result = Err("UniqueConstraint")

\* the texts the backend's stores hold unencrypted: the entries of
\* walletStore, the addresses of the wallets rows and the keyShares rows
\* that are stored as they are
StoredPlaintexts ==
  {walletStore[id].seedPhrase : id \in DOMAIN walletStore}
  \cup {wallets[u].address : u \in DOMAIN wallets}
  \cup {r.encryptedShare : r \in {k \in keyShares : k.location = "third_party"}}

\* C12: after any sequence of wallet creations and recoveries no database
\* row and no in-memory store of the backend holds a seed phrase in
\* plaintext.
C12_NoPlaintextSeedStored == StoredPlaintexts \cap Mnemonics = {}

\* C13: a wallet row is created once per user, by the onboarding step of
\* verifyOTP; no step changes or removes a stored wallet row or keyShares
\* row, and a recoverWallet step, whatever it answers, leaves users,
\* wallets and keyShares as they were.  (A recoverWallet step is one
\* that leaves a new recoverWallet answer in response.)
C13_WalletRecordWriteOnce ==
  [][/\ \A u \in DOMAIN wallets : u \in DOMAIN wallets' /\ wallets'[u] = wallets[u]
     /\ keyShares \subseteq keyShares'
     /\ \A u \in (DOMAIN wallets') \ (DOMAIN wallets) :
          /\ response'.op = "verifyOTP"
          /\ rowCount'["wallets"][u] = 1
          /\ wallets'[u].shareThreshold = 3 /\ wallets'[u].totalShares = 5
     /\ (response' # response /\ response'.op = "recoverWallet")
        => UNCHANGED <<users, wallets, keyShares>>]_vars

\* recoverWallet has answered for an onboarded user, once with success
\* and the row is still the one written at onboarding
C13_Witness ==
  \E u \in DOMAIN wallets :
    /\ Recovered(u)
    /\ response.result.ok
    /\ rowCount["wallets"][u] = 1
    /\ wallets[u].address = GetAddress(SeedOf(u), "polygon")

\* C14: a share encrypted under index i and decrypted under the same index
\* comes back exactly, whatever IV the encryption drew.
C14_EncryptDecryptRoundTrip ==
  (response.op = "decryptShare" /\ response.shareIndex = response.encryptedUnder)
  => response.result = Ok(response.share)

\* a share was encrypted and decrypted under one index, with each IV
C14_Witness ==
  /\ response.op = "decryptShare"
  /\ response.shareIndex = response.encryptedUnder
  /\ response.result.ok
  /\ response.encryptedShare.iv = Rng(MaxRng, 0)
  /\ Len(response.share) > 2 * BlockSize

\* C15: a share encrypted under index i and decrypted under another index
\* j never comes back as the original share: the call fails or returns
\* something else.
C15_IndexBinding ==
  (response.op = "decryptShare" /\ response.shareIndex # response.encryptedUnder)
  => response.result # Ok(response.share)

\* a decryption under another index that did not throw
C15_Witness ==
  /\ response.op = "decryptShare"
  /\ response.shareIndex # response.encryptedUnder
  /\ response.result.ok

\* the ids of the shares of one split
ShareIds(shares) == {ExtractShareComponents(shares[i]).val.id : i \in 1..Len(shares)}

\* the ways of passing three different shares of five, in any order
ThreeOfFive ==
  {c \in [1..THRESHOLD -> 1..TOTAL_SHARES] : \A i, j \in 1..THRESHOLD : i # j => c[i] # c[j]}

\* C16: every split returns 5 shares with pairwise distinct indices; a
\* second split of the same secret returns shares that differ from those
\* of the first, and any three shares of either batch give the secret back.
C16_SplitDistinctAndFresh ==
  response.op = "splitSeedPhrase" =>
    /\ Len(response.shares) = TOTAL_SHARES
    /\ Cardinality(ShareIds(response.shares)) = TOTAL_SHARES
    /\ "earlier" \in DOMAIN response =>
         /\ Range(response.shares) # Range(response.earlier)
         /\ \A i \in 1..TOTAL_SHARES : response.shares[i] # response.earlier[i]
    /\ \A c \in ThreeOfFive :
         ReconstructSeedPhrase(<<response.shares[c[1]], response.shares[c[2]],
                                 response.shares[c[3]]>>) = Ok(response.seedPhrase)

\* a secret was split a second time
C16_Witness ==
  /\ response.op = "splitSeedPhrase"
  /\ "earlier" \in DOMAIN response
  /\ Len(response.earlier) = TOTAL_SHARES
  /\ Len(Utf8Encode(response.seedPhrase)) > Len(response.seedPhrase)

\* C17: generateShareDistribution hands out the five shares of one split
\* in their order: the first to the merchant's device, the second to the
\* merchant's backup, the third and fourth encrypted for the backend, each
\* under its own index (2 and 3), the fifth in clear for the third party;
\* storeWalletWithShares files them under share indices 2, 3 and 4.
C17_FixedOrderDistribution ==
  /\ response.op = "generateShareDistribution" =>
       LET d == response.result
           shares == SplitShares[response.seedPhrase, response.tape]
           rows == KeyShareRows(<<>>, d.backendShare1, d.backendShare2, d.optionalShare)
       IN /\ d.allShares = shares
          /\ d.merchantShare = shares[1]
          /\ d.merchantBackupShare = shares[2]
          /\ d.optionalShare = shares[5]
          /\ DecryptShare(d.backendShare1, 2) = {Ok(shares[3])}
          /\ DecryptShare(d.backendShare2, 3) = {Ok(shares[4])}
          /\ \A r \in rows :
               /\ r.shareIndex = 2 => r.encryptedShare = d.backendShare1 /\ r.location = "backend"
               /\ r.shareIndex = 3 => r.encryptedShare = d.backendShare2 /\ r.location = "backend"
               /\ r.shareIndex = 4 => r.encryptedShare = shares[5] /\ r.location = "third_party"
          /\ {r.shareIndex : r \in rows} = {2, 3, 4}
  /\ response.op = "openBackendShare" =>
       (response.result.ok /\ response.result.val \in AllShares)
       <=> \/ response.field = "backendShare1" /\ response.shareIndex = 2
           \/ response.field = "backendShare2" /\ response.shareIndex = 3

\* the redundant backend share of a distribution was opened under index 3
C17_Witness ==
  /\ response.op = "openBackendShare"
  /\ response.field = "backendShare2"
  /\ response.shareIndex = 3
  /\ response.result = Ok(SplitShares[response.seedPhrase, response.tape][4])

\* C18: reconstruction from shares of which two carry the same index, or
\* one of which cannot be parsed, fails and returns no value.
C18_DuplicateOrUnparsableFails ==
  (response.op = "reconstructSeedPhrase"
   /\ \/ \E i, j \in 1..Len(response.input) :
            /\ i # j
            /\ ExtractShareComponents(response.input[i]).ok
            /\ ExtractShareComponents(response.input[j]).ok
            /\ ExtractShareComponents(response.input[i]).val.id
                 = ExtractShareComponents(response.input[j]).val.id
      \/ \E i \in 1..Len(response.input) : ~ExtractShareComponents(response.input[i]).ok)
  => ~response.result.ok

\* what an error of recoverWallet tells its caller: the message of the
\* threshold check, the error of the decipher, or one of the messages
\* about the shares
ErrorClass(err) ==
  IF err = "NotEnoughShares" THEN "need more shares"
  ELSE IF err = "DecryptionFailed" THEN "backend storage is corrupted"
  ELSE "shares are wrong"

\* the causes of failure present when a user's recovery is called with a
\* share list: the stored share does not decrypt to what was encrypted,
\* the list with the backend's share is shorter than the threshold, a
\* share of the list is not of the seed's split or is there twice
Causes(userId, merchantShares) ==
  (IF wallets[userId].backendShare1.iv # wallets[userId].backendShare1.encrypted.iv
     THEN {"backend storage is corrupted"} ELSE {})
  \cup (IF Len(merchantShares) + 1 < ShareThresholdOf(wallets[userId])
          THEN {"need more shares"} ELSE {})
  \cup (IF /\ Range(merchantShares) \subseteq Range(splitLog[userId][1].shares)
           /\ Cardinality(Range(merchantShares)) = Len(merchantShares)
          THEN {} ELSE {"shares are wrong"})

\* C19: a recovery that fails for one of the causes 'need more shares',
\* 'shares are wrong', 'backend storage is corrupted' answers with an
\* error that tells its caller a cause that is present.
C19_FailuresDistinguishable ==
  \A u \in DOMAIN wallets :
    (Recovered(u) /\ Causes(u, response.merchantShares) # {})
    => /\ ~response.result.ok
       /\ ErrorClass(response.result.err) \in Causes(u, response.merchantShares)

\* C20: a verifyOTP step creates a wallet and returns recovery shares only
\* when no user row has the phone; a successful verifyOTP of a phone that
\* has a user row leaves users, wallets and keyShares as they were and
\* returns no recovery data.  (A verifyOTP step is one that leaves a
\* verifyOTP answer in response and has changed response or otpStore.)
C20_ExistingUserUntouched ==
  [][(response'.op = "verifyOTP" /\ (response' # response \/ otpStore' # otpStore))
     => /\ (response'.result.ok /\ response'.result.val.recovery # Null)
            => (response'.phone \notin users /\ response'.phone \in DOMAIN wallets')
        /\ (users' # users \/ wallets' # wallets \/ keyShares' # keyShares)
            => response'.phone \notin users
        /\ (response'.phone \in users /\ response'.result.ok)
            => /\ response'.result.val.recovery = Null
               /\ UNCHANGED <<users, wallets, keyShares>>]_vars

\* a user that has a wallet signed in again and got no recovery data
C20_Witness ==
  /\ response.op = "verifyOTP"
  /\ response.result.ok
  /\ response.result.val.recovery = Null
  /\ response.phone \in DOMAIN wallets
  /\ rowCount["wallets"][response.phone] = 1

\* the share strings a recovery answer's two payloads carry
PayloadShares(recovery) ==
  {recovery.recoveryQR.share} \cup Range(recovery.recoveryEmail.shares)

\* C21: the recovery data verifyOTP returns to a new user has a QR payload
\* that carries exactly the merchant_device share (the first share of the
\* seed's split) and an email payload that carries exactly that share and
\* the merchant_backup share (the second); neither carries a share held by
\* the backend or the third party, nor the seed phrase.
C21_RecoveryPackageMerchantSharesOnly ==
  (response.op = "verifyOTP" /\ response.result.ok
   /\ response.result.val.recovery # Null)
  => LET u == response.phone
         recovery == response.result.val.recovery
         shares == splitLog[u][1].shares
     IN /\ recovery.recoveryQR = [share |-> shares[1]]
        /\ DOMAIN recovery.recoveryEmail = {"shares", "timestamp", "version"}
        /\ recovery.recoveryEmail.shares = <<shares[1], shares[2]>>
        /\ PayloadShares(recovery)
             \cap ({shares[3], shares[4], shares[5], SeedOf(u)} \cup StoredShares(u)) = {}

\* a new user was onboarded one OTP lifetime after the start and got the
\* recovery package stamped with that time
C21_Witness ==
  /\ response.op = "verifyOTP"
  /\ response.result.ok
  /\ response.result.val.recovery # Null
  /\ response.result.val.recovery.recoveryEmail.timestamp = OtpTtl
  /\ Len(response.result.val.recovery.recoveryEmail.shares) = 2

\* the OTP errors of verifyOTP
OtpErrors == {"OTP not found or expired", "OTP expired", "Invalid OTP"}

\* a request has passed the code check of verifyOTP
PassedCodeCheck(call) ==
  call.pc # "done" \/ call.result.ok \/ call.result.err \notin OtpErrors

\* C22: a verifyOTP request passes the code check only if an OTP is stored
\* for its phone, and passing removes that OTP; a request that arrives when
\* no OTP is stored for its phone fails.  So of the requests that arrive
\* between two requestOTP calls, concurrent or not, at most one passes.
C22_OtpSingleUse ==
  [][\A c \in (DOMAIN calls') \ (DOMAIN calls) :
       /\ PassedCodeCheck(calls'[c])
            => (calls'[c].phone \in DOMAIN otpStore
                /\ calls'[c].phone \notin DOMAIN otpStore')
       /\ calls'[c].phone \notin DOMAIN otpStore
            => calls'[c] = [pc |-> "done", phone |-> calls'[c].phone,
                            result |-> Err("OTP not found or expired")]]_vars

\* a request arrived while an earlier one for the same phone, which had
\* passed the code check, was still in flight, and was refused
C22_Witness ==
  \E c1 \in DOMAIN calls, c2 \in DOMAIN calls :
    /\ c1 < c2
    /\ calls[c1].phone = calls[c2].phone
    /\ calls[c1].pc \notin {"done", "findUnique"}
    /\ calls[c2].pc = "done"
    /\ calls[c2].result = Err("OTP not found or expired")

\* a step of verifyOTP: it leaves a verifyOTP answer in response and has
\* changed response or otpStore
VerifyOTPStep ==
  /\ response'.op = "verifyOTP"
  /\ (response' # response \/ otpStore' # otpStore)

\* C23: an OTP is valid until 5 minutes after the requestOTP that stored
\* it.  A verifyOTP made later fails with the expiry error whatever the
\* code, removes the stored OTP and changes no user, wallet or key-share
\* row; one made no later than that with the stored code is not refused
\* for its OTP.
C23_OtpExpiresAfterFiveMinutes ==
  [][(VerifyOTPStep /\ response'.phone \in DOMAIN otpStore)
     => LET storedOTP == otpStore[response'.phone]
        IN /\ storedOTP.expiresAt <= now + OtpTtl
           /\ now > storedOTP.expiresAt
                => /\ response'.result = Err("OTP expired")
                   /\ response'.phone \notin DOMAIN otpStore'
                   /\ UNCHANGED <<users, wallets, keyShares, vault>>
           /\ (now <= storedOTP.expiresAt /\ response'.code = storedOTP.code)
                => (response'.result.ok \/ response'.result.err \notin OtpErrors)]_vars

\* a verifyOTP made one millisecond after the expiry was refused and the
\* OTP is gone
C23_Witness ==
  /\ response.op = "verifyOTP"
  /\ response.result = Err("OTP expired")
  /\ now = OtpTtl + 1
  /\ response.phone \notin DOMAIN otpStore
  /\ users = {}

\* ------------------------------------------------------------------------
\* POST /api/v1/webhook/usdt-incoming, one await at a time
\* ------------------------------------------------------------------------
\* Deno.env.get('WEBHOOK_API_KEY'), and a key that is not it
WebhookApiKey == "key"

ApiKeys == {WebhookApiKey, "other"}

\* amounts as decimal strings: "1.5", "2" and "0.0000001"
Amounts ==
  {[whole |-> 1, frac |-> <<5>>],
   [whole |-> 2, frac |-> <<>>],
   [whole |-> 0, frac |-> <<0, 0, 0, 0, 0, 0, 1>>]}

RECURSIVE Pow10(_)
Pow10(n) == IF n = 0 THEN 1 ELSE 10 * Pow10(n - 1)

RECURSIVE FractionUnits(_, _)
FractionUnits(frac, decimals) ==
  IF frac = <<>> THEN 0
  ELSE Head(frac) * Pow10(decimals - 1) + FractionUnits(Tail(frac), decimals - 1)

\* ethers.parseUnits(value, decimals): the amount in the smallest unit; a
\* value with more fraction digits than decimals is rejected
ParseUnits(value, decimals) ==
  IF Len(value.frac) > decimals
    THEN Err("too many decimals for format")
    ELSE Ok(value.whole * Pow10(decimals) + FractionUnits(value.frac, decimals))

\* two of the seeds that can be drawn
OtpSeeds == CHOOSE seeds \in SUBSET Mnemonics : Cardinality(seeds) = Cardinality(OtpPhones)

\* the addresses a notification can name: those of two wallets, of which
\* one phone's onboarding creates at most one
HookAddresses == {GetAddress(seedPhrase, "polygon") : seedPhrase \in OtpSeeds}

\* the request bodies the notifier sends (from, token and chain do not vary)
Payloads ==
  [address : HookAddresses, tx_hash : TxHashes, amount : Amounts, from : {"customer"}]

\* prisma.wallets.findUnique({ where: { address } })
FindWallet(address) == {userId \in DOMAIN wallets : wallets[userId].address = address}

\* a query that finds no transaction, whatever the table holds
FindTransactionNull(txHash) == FALSE

\* prisma.transactions.findUnique({ where: { txHash } }): is there such a row
FindTransaction(txHash) == txHash \in DOMAIN transactions

\* a delivery that was recorded before: its tx_hash has a row, made for the
\* address it names
Redelivery(payload) ==
  /\ payload.tx_hash \in DOMAIN transactions
  /\ transactions[payload.tx_hash].toAddress = payload.address

HookDone(delivery, status, body) ==
  [pc |-> "done", redelivery |-> delivery.redelivery, status |-> status, body |-> body]

\* the handler up to the end of its first database call: the key check, the
\* body, and the log row
UsdtIncomingBegin(d, apiKey, payload) ==
  /\ d = Cardinality(DOMAIN deliveries) + 1
  /\ d <= MaxDeliveries
  /\ LET delivery == [payload |-> payload, redelivery |-> Redelivery(payload)]
     IN IF apiKey # WebhookApiKey
          THEN \* answered before the body is read
               /\ deliveries' = Put(deliveries, d,
                                    [pc |-> "done", status |-> 401,
                                     body |-> [error |-> "UNAUTHORIZED"]])
               /\ UNCHANGED webhooksLogs
          ELSE /\ webhooksLogs' = Append(webhooksLogs,
                                         [payload |-> payload, source |-> "usdt-incoming",
                                          processed |-> FALSE])
               /\ deliveries' = Put(deliveries, d,
                                    [pc |-> "wallets.findUnique", payload |-> payload,
                                     redelivery |-> delivery.redelivery])
  /\ UNCHANGED <<otpStore, now, users, wallets, keyShares, decryptImpl, response, vault,
                 splitLog, walletStore, calls, rowCount, transactions, issued>>

UsdtIncomingFindWallet(d) ==
  /\ d \in DOMAIN deliveries
  /\ deliveries[d].pc = "wallets.findUnique"
  /\ LET found == FindWallet(deliveries[d].payload.address)
     IN deliveries' =
          [deliveries EXCEPT ![d] =
             IF found = {}
               THEN HookDone(@, 404, [success |-> FALSE, message |-> "Wallet not found"])
               ELSE [pc |-> "transactions.findUnique", payload |-> @.payload,
                     redelivery |-> @.redelivery, userId |-> CHOOSE userId \in found : TRUE]]
  /\ UNCHANGED <<otpStore, now, users, wallets, keyShares, decryptImpl, response, vault,
                 splitLog, walletStore, calls, rowCount, transactions, webhooksLogs, issued>>

UsdtIncomingFindTransaction(d) ==
  /\ d \in DOMAIN deliveries
  /\ deliveries[d].pc = "transactions.findUnique"
  /\ deliveries' =
       [deliveries EXCEPT ![d] =
          IF FindTransaction(@.payload.tx_hash)
            THEN HookDone(@, 200, [success |-> TRUE,
                                   message |-> "Transaction already recorded"])
            ELSE [@ EXCEPT !.pc = "transactions.create"]]
  /\ UNCHANGED <<otpStore, now, users, wallets, keyShares, decryptImpl, response, vault,
                 splitLog, walletStore, calls, rowCount, transactions, webhooksLogs, issued>>

Failed500(delivery, message) ==
  HookDone(delivery, 500, [error |-> "WEBHOOK_PROCESSING_FAILED", message |-> message])

UsdtIncomingCreate(d) ==
  /\ d \in DOMAIN deliveries
  /\ deliveries[d].pc = "transactions.create"
  /\ LET payload == deliveries[d].payload
         amount == ParseUnits(payload.amount, 6)
     IN IF ~amount.ok THEN
          /\ deliveries' = [deliveries EXCEPT ![d] = Failed500(@, amount.err)]
          /\ UNCHANGED <<transactions, rowCount>>
        ELSE IF Conflict(DOMAIN transactions, payload.tx_hash) THEN
          /\ deliveries' = [deliveries EXCEPT ![d] =
                              Failed500(@, "Unique constraint failed")]
          /\ UNCHANGED <<transactions, rowCount>>
        ELSE
          /\ transactions' =
               Put(transactions, payload.tx_hash,
                   [userId |-> deliveries[d].userId, txHash |-> payload.tx_hash,
                    timestamp |-> now, type |-> "receive",
                    fromAddress |-> payload.from, toAddress |-> payload.address,
                    amount |-> amount.val, token |-> "USDT", status |-> "confirmed",
                    confirmations |-> 1])
          /\ rowCount' = [rowCount EXCEPT !["transactions"][payload.tx_hash] = @ + 1]
          /\ deliveries' = [deliveries EXCEPT ![d].pc = "webhooksLogs.updateMany"]
  /\ UNCHANGED <<otpStore, now, users, wallets, keyShares, decryptImpl, response, vault,
                 splitLog, walletStore, calls, webhooksLogs, issued>>

UsdtIncomingMarkProcessed(d) ==
  /\ d \in DOMAIN deliveries
  /\ deliveries[d].pc = "webhooksLogs.updateMany"
  /\ webhooksLogs' =
       [i \in DOMAIN webhooksLogs |->
          IF webhooksLogs[i].payload = deliveries[d].payload /\ ~webhooksLogs[i].processed
            THEN [webhooksLogs[i] EXCEPT !.processed = TRUE]
            ELSE webhooksLogs[i]]
  /\ deliveries' =
       [deliveries EXCEPT ![d] =
          HookDone(@, 200, [success |-> TRUE,
                            transaction_id |-> @.payload.tx_hash,
                            message |-> "Payment recorded"])]
  /\ UNCHANGED <<otpStore, now, users, wallets, keyShares, decryptImpl, response, vault,
                 splitLog, walletStore, calls, rowCount, transactions, issued>>

NextHook ==
  \/ \E phone \in Phones, code \in OtpCodes : RequestOTP(phone, code)
  \/ \E phone \in Phones, code \in OtpCodes, seedPhrase \in OtpSeeds :
       VerifyOTP(phone, code, seedPhrase, 1)
  \/ \E d \in 1..MaxDeliveries, apiKey \in ApiKeys, payload \in Payloads :
       UsdtIncomingBegin(d, apiKey, payload)
  \/ \E d \in 1..MaxDeliveries : UsdtIncomingFindWallet(d)
  \/ \E d \in 1..MaxDeliveries : UsdtIncomingFindTransaction(d)
  \/ \E d \in 1..MaxDeliveries : UsdtIncomingCreate(d)
  \/ \E d \in 1..MaxDeliveries : UsdtIncomingMarkProcessed(d)

SpecHook == Init /\ [][NextHook]_vars

\* C24: over any interleaving of usdt-incoming deliveries no tx_hash ever has
\* more than one transaction row; no step of a delivery changes or removes a
\* row that exists; and a delivery that arrives with the key, for a tx_hash
\* that is recorded and for the address it is recorded under, ends with
\* success "Transaction already recorded"
C24_OneTransactionPerTxHash ==
  [][/\ \A txHash \in TxHashes : rowCount'["transactions"][txHash] <= 1
     /\ \A txHash \in DOMAIN transactions :
          /\ txHash \in DOMAIN transactions'
          /\ transactions'[txHash] = transactions[txHash]
     /\ \A d \in DOMAIN deliveries' :
          LET delivery == deliveries'[d]
          IN (/\ delivery.pc = "done"
              /\ delivery.status # 401
              /\ delivery.redelivery)
             => /\ delivery.status = 200
                /\ delivery.body = [success |-> TRUE,
                                    message |-> "Transaction already recorded"]]_vars

\* a recorded tx_hash was delivered again and answered with success, and the
\* table holds one row for it
C24_Witness ==
  \E d \in DOMAIN deliveries, txHash \in DOMAIN transactions :
    /\ deliveries[d].pc = "done"
    /\ deliveries[d].status = 200
    /\ deliveries[d].redelivery
    /\ deliveries[d].body.message = "Transaction already recorded"
    /\ rowCount["transactions"][txHash] = 1

\* C25: whatever verifyOTP requests have run, and however far each has got,
\* every user row has a wallet row holding both encrypted backend shares,
\* and every wallet row has its three key-share rows: no state with a user
\* but no wallet, or a wallet but no key-share rows, is reached.
C25_OnboardingAllOrNothing ==
  /\ \A u \in users :
       /\ u \in DOMAIN wallets
       /\ {"backendShare1", "backendShare2"} \subseteq DOMAIN wallets[u]
  /\ \A u \in DOMAIN wallets :
       Cardinality({k \in keyShares : k.walletAddress = wallets[u].address}) = 3

\* ------------------------------------------------------------------------
\* AuthService.verifyToken and the routes' authMiddleware
\* ------------------------------------------------------------------------
\* decoded.split(':')[0]: the text before the first colon
RECURSIVE BeforeColon(_)
BeforeColon(text) ==
  IF text = <<>> \/ "colon" \in DOMAIN Head(text) THEN <<>>
  ELSE <<Head(text)>> \o BeforeColon(Tail(text))

\* the id of user u as a text
IdText(userId) == <<[id |-> userId]>>

\* nothing in the body throws: every token decodes to some text, and the
\* text before its first colon is returned as the user id
VerifyToken(token) == Ok(BeforeColon(Base64Decode(token)))

\* the tokens a client can present: a user's id with a time, with something
\* else or with nothing after it, and the empty token
PresentedTokens ==
  {Token(userId, t) : userId \in Phones, t \in Times}
  \cup {Base64(<<[id |-> userId], Colon, [id |-> "x"]>>) : userId \in Phones}
  \cup {Base64(IdText(userId)) : userId \in Phones}
  \cup {Base64(<<>>)}

\* the Authorization headers of a request: none, another scheme, Bearer
AuthHeaders ==
  {Null}
  \cup [scheme : {"Basic ", "Bearer "}, token : PresentedTokens]

AuthMiddleware(authHeader) ==
  /\ response' =
       [op |-> "authMiddleware", authHeader |-> authHeader,
        result |-> IF authHeader = Null \/ authHeader.scheme # "Bearer "
                     THEN Err("Authorization token is required")
                     ELSE VerifyToken(authHeader.token)]
  /\ UNCHANGED <<otpStore, now, users, wallets, keyShares, decryptImpl, vault, splitLog,
                 walletStore, calls, rowCount, transactions, webhooksLogs, deliveries,
                 issued>>

NextAuth ==
  \/ \E d \in TickSteps : Tick(d)
  \/ \E phone \in Phones, code \in OtpCodes : RequestOTP(phone, code)
  \/ \E phone \in Phones, code \in OtpCodes, seedPhrase \in Mnemonics, tape \in Tapes :
       VerifyOTP(phone, code, seedPhrase, tape)
  \/ \E authHeader \in AuthHeaders : AuthMiddleware(authHeader)

SpecAuth == Init /\ [][NextAuth]_vars

\* C26: a request is let through as user u only with a token that a
\* successful verifyOTP for u's phone has returned before; a token verifyOTP
\* never returned is let through as nobody.
C26_OnlyIssuedTokensAccepted ==
  (response.op = "authMiddleware" /\ response.result.ok)
    => /\ response.authHeader.token \in issued
       /\ \E userId \in users : response.result.val = IdText(userId)

\* ------------------------------------------------------------------------
\* Recovery when the stored redundancy share is lost or damaged
\* ------------------------------------------------------------------------
\* the faults of the storage: the column lost, or one bit of it flipped
Faults == {"missing", "corrupt"}

\* wallets.backendShare2 after the fault: null, or the stored text with one
\* bit of its IV part flipped
DamagedShare(encryptedShare, fault) ==
  IF fault = "missing" THEN Null ELSE [encryptedShare EXCEPT !.iv = Xor(@, 1)]

DamageBackendShare2(userId, fault) ==
  /\ userId \in DOMAIN wallets
  /\ wallets[userId].backendShare2 # Null
  /\ wallets[userId].backendShare2.iv = wallets[userId].backendShare2.encrypted.iv
  /\ wallets' = [wallets EXCEPT ![userId].backendShare2 = DamagedShare(@, fault)]
  /\ response' = [op |-> "damageBackendShare2", userId |-> userId]
  /\ UNCHANGED <<otpStore, now, users, keyShares, decryptImpl, vault, splitLog,
                 walletStore, calls, rowCount, transactions, webhooksLogs, deliveries,
                 issued>>

NextRedundant ==
  \/ \E phone \in Phones, code \in OtpCodes : RequestOTP(phone, code)
  \/ \E phone \in Phones, code \in OtpCodes, seedPhrase \in Mnemonics, tape \in Tapes :
       VerifyOTP(phone, code, seedPhrase, tape)
  \/ \E userId \in Phones, fault \in Faults : DamageBackendShare2(userId, fault)
  \/ \E userId \in Phones : \E merchantShares \in RecoverInputs(userId) :
       RecoverWallet(userId, merchantShares)

SpecRedundant == Init /\ [][NextRedundant]_vars

\* the redundancy share as storeWalletWithShares wrote it, read from its
\* audit row
AuditedBackendShare2(userId) ==
  (CHOOSE k \in keyShares :
     k.walletAddress = wallets[userId].address /\ k.shareIndex = 3).encryptedShare

\* C27: the outcome of recoverWallet is settled by the merchant's shares,
\* the stored backendShare1 and the stored address: a recovery that succeeds
\* with the redundancy share intact succeeds as well when backendShare2 is
\* missing or does not decrypt.
C27_BackendShare2Irrelevant ==
  (/\ response.op = "recoverWallet"
   /\ response.userId \in DOMAIN wallets
   /\ \E o \in RecoverWalletVia([wallets[response.userId] EXCEPT
                                   !.backendShare2 = AuditedBackendShare2(response.userId)],
                                response.merchantShares, decryptImpl) : o.ok)
    => response.result.ok

\* C28: when the merchant supplies three or more shares, the outcome of
\* recoverWallet is the one its first three shares give: the backend share,
\* appended after them, and every share after the third change nothing, and
\* a quorum that stands later in the list does not make the recovery
\* succeed.
C28_OnlyFirstThreeSharesCount ==
  (/\ response.op = "recoverWallet"
   /\ response.userId \in DOMAIN wallets
   /\ Len(response.merchantShares) >= THRESHOLD)
    => response.result \in
         DeriveAndVerify(wallets[response.userId],
                         ReconstructSeedPhrase(SubSeq(response.merchantShares, 1, THRESHOLD)))

\* a recovery with four shares failed on its first three although the
\* shares in places two to four recover the wallet
C28_Witness ==
  /\ response.op = "recoverWallet"
  /\ response.userId \in DOMAIN wallets
  /\ Len(response.merchantShares) = THRESHOLD + 1
  /\ ~response.result.ok
  /\ \E o \in DeriveAndVerify(wallets[response.userId],
                              ReconstructSeedPhrase(Tail(response.merchantShares))) : o.ok

\* C29: a verifyOTP with a wrong code, for a phone whose OTP has not
\* expired, answers "Invalid OTP" and changes neither the OTP store nor any
\* persisted record; and whatever attempts came before, a verifyOTP with the
\* stored code, for a phone whose OTP has not expired, succeeds.
C29_WrongCodeChangesNothing ==
  [][(/\ VerifyOTPStep
      /\ response'.phone \in DOMAIN otpStore
      /\ otpStore[response'.phone].expiresAt >= now)
     => IF otpStore[response'.phone].code # response'.code
          THEN /\ response'.result = Err("Invalid OTP")
               /\ UNCHANGED <<otpStore, now, users, wallets, keyShares, vault, issued>>
          ELSE response'.result.ok]_vars

\* a wrong code has just been refused, and the OTP it was tried against is
\* still stored and not expired
C29_Witness ==
  /\ response.op = "verifyOTP"
  /\ response.result = Err("Invalid OTP")
  /\ response.phone \in DOMAIN otpStore
  /\ otpStore[response.phone].code # response.code
  /\ otpStore[response.phone].expiresAt >= now

\* ------------------------------------------------------------------------
\* The OTPs of two phones
\* ------------------------------------------------------------------------
NextOtp ==
  \/ \E d \in TickSteps : Tick(d)
  \/ \E phone \in OtpPhones, code \in OtpCodes : RequestOTP(phone, code)
  \/ \E phone \in OtpPhones, code \in OtpCodes, seedPhrase \in OtpSeeds :
       VerifyOTP(phone, code, seedPhrase, 1)

SpecOtp == Init /\ [][NextOtp]_vars

RequestOTPStep ==
  /\ response'.op = "requestOTP"
  /\ (response' # response \/ otpStore' # otpStore)

\* the entries of the phones other than phone are the same in both stores
SameForOthers(phone, store, storeAfter) ==
  \A other \in OtpPhones \ {phone} :
    /\ other \in DOMAIN storeAfter <=> other \in DOMAIN store
    /\ other \in DOMAIN store => storeAfter[other] = store[other]

\* C30: the store holds at most one OTP per phone. A requestOTP puts its
\* code in the place of the one stored for the phone, expiring five minutes
\* from now; a verifyOTP succeeds only with the code now stored for its own
\* phone, so an earlier code that differs from it is refused; and no request
\* for one phone changes the OTP of another.
C30_OneOtpPerPhone ==
  [][/\ RequestOTPStep =>
          /\ \E code \in OtpCodes :
               otpStore' = [phone \in DOMAIN otpStore \cup {response'.phone} |->
                              IF phone = response'.phone
                                THEN [code |-> code, expiresAt |-> now + OtpTtl]
                                ELSE otpStore[phone]]
          /\ SameForOthers(response'.phone, otpStore, otpStore')
     /\ VerifyOTPStep =>
          /\ SameForOthers(response'.phone, otpStore, otpStore')
          /\ response'.result.ok =>
               /\ response'.phone \in DOMAIN otpStore
               /\ otpStore[response'.phone].code = response'.code
               /\ otpStore[response'.phone].expiresAt >= now]_vars

\* both phones hold an OTP, requested at different times and with different
\* codes, and the code of the second phone has just been refused for the
\* first
C30_Witness ==
  /\ OtpPhones \subseteq DOMAIN otpStore
  /\ \E phone \in OtpPhones, other \in OtpPhones :
       /\ otpStore[phone].code # otpStore[other].code
       /\ otpStore[phone].expiresAt # otpStore[other].expiresAt
       /\ response = VerifyResponse(phone, otpStore[other].code, Err("Invalid OTP"))

====
